---- MODULE Spec2Model ----
(***************************************************************************)
(* A model of the Vertex AI agent loop of obsidian-vertex-ai-plugin:       *)
(* VertexService (src/src/services/vertex.ts): the access-token cache with *)
(* its single-flight refresh, the streaming chat generator with its tool   *)
(* cycle and fallback, the SSE line decoder and the thinking-block parser. *)
(***************************************************************************)
EXTENDS Integers, Sequences, FiniteSets, TLC

\* ------------------------------------------------------------------------
\* Bounds of the model and constants of the program
\* ------------------------------------------------------------------------
MaxRefreshes == 2
MaxTicks == 3
FreeRounds == 2
MaxEvents == 3
MaxGenerations == 3
MaxProduced == 4
MaxNexts == 4
\* the longest chunk: no response of MaxEvents events is longer
MaxChunk == 12 * MaxEvents

\* vault.ts:643  for (let i = 0; i < 15; i++)
Ceiling == 15
MaxRounds == Ceiling + 2

\* vertex.ts:74  this.tokenExpiry = Date.now() + (data.expires_in - 120) * 1000
MarginSeconds == 120
MsPerSecond == 1000
\* the clock advances in steps of one minute
TickMs == 60 * MsPerSecond

\* provider-reported lifetimes (expires_in, seconds) the exchange may answer
Lifetimes == {30, 180, 240}

\* the concurrent getAccessToken() calls: listModels() and overlapping chats
Callers == {"c1", "c2", "c3"}

\* settings.serviceAccountJson: unset, not JSON, JSON without the two fields,
\* a key that cannot be imported for signing, and two usable credentials
Creds == {"", "notjson", "nofields", "badkey", "credA", "credB"}

NoToken == [id |-> 0, cred |-> "", exp |-> 0]
Null == 0

VARIABLES
  \* VertexService fields (vertex.ts:9-16)
  serviceAccountJson, accessToken, tokenExpiry, isRefreshingToken,
  tokenRefreshPromise,
  \* the refresh closures started so far (vertex.ts:40-81), one promise each
  refreshes,
  \* the getAccessToken() calls of the environment
  callers,
  \* Date.now(), and token-exchange requests sent since the window opened
  now, windowReqs,
  \* VertexService.location and VertexService.modelId (vertex.ts:10-11)
  location, modelId,
  \* one chat() invocation: where the generator stands, the arguments and
  \* locals of the running chatInternal() frame, and what it has yielded
  pc, attempt, history, runLocation, contents, parts, streamEnd,
  accumulatedText, accumulatedThinking, isThinking, accumulatedFunctions,
  toolIdx, functionResponseParts, executedActions,
  emitted, requests, turnsLog, execLog, chatError,
  \* the response on the wire: the characters not yet delivered, all of them,
  \* and the partial line the streaming loop keeps (vertex.ts:626)
  wire, response, buffer,
  \* the input this run was given
  scenario,
  \* the host of the service: the settings of the plugin (main.ts:503-524),
  \* the calls that reached a capability provider, the errors that left
  \* chatInternal(), and signal.aborted of the view (ChatView.ts:237-238)
  pluginSettings, providerCalls, failures, aborted,
  \* MastermindChatView (ChatView.ts:189-305): the two fields that the send
  \* button and stopGeneration() use, and the handleSendMessage() calls so far
  isGenerating, abortController, generations,
  \* AsyncQueue (vertex.ts:923-979): its fields, the values the producer
  \* pushed and the results the consumer's next() calls settled with
  queue, resolveNext, rejectNext, closed, error, pushLog, received

tokenVars == <<serviceAccountJson, accessToken, tokenExpiry, isRefreshingToken,
               tokenRefreshPromise, refreshes, callers, now, windowReqs>>

svcVars == <<location, modelId>>

chatVars == <<pc, attempt, history, runLocation, contents, parts, streamEnd,
              accumulatedText, accumulatedThinking, isThinking, accumulatedFunctions,
              toolIdx, functionResponseParts, executedActions,
              emitted, requests, turnsLog, execLog, chatError>>

decVars == <<wire, response, buffer, scenario>>

hostVars == <<pluginSettings, providerCalls, failures, aborted>>

viewVars == <<isGenerating, abortController, generations>>

queueVars == <<queue, resolveNext, rejectNext, closed, error, pushLog, received>>

vars == <<tokenVars, svcVars, chatVars, decVars, viewVars, queueVars, hostVars>>

\* ------------------------------------------------------------------------
\* CredentialBroker: VertexService.getAccessToken
\* ------------------------------------------------------------------------

\* vertex.ts:31  if (this.accessToken && Date.now() < this.tokenExpiry)
CacheValid_NoCheck == FALSE
CacheValid == accessToken # NoToken /\ now < tokenExpiry

\* vertex.ts:35  if (this.isRefreshingToken && this.tokenRefreshPromise)
RefreshInFlight_Never == FALSE
RefreshInFlight == isRefreshingToken /\ tokenRefreshPromise # Null

\* vertex.ts:42-55  the checks the closure makes before its first await
CredentialError(cred) ==
  IF cred = "" THEN "Service Account JSON not configured."
  ELSE IF cred = "notjson" THEN "Invalid Service Account JSON format."
  ELSE IF cred = "nofields" THEN "Service Account JSON missing client_email or private_key."
  ELSE "none"

\* vertex.ts:127-162  sign(): importKey rejects for a key it cannot decode
Signable(cred) == cred \in {"credA", "credB"}

\* vertex.ts:74
ComputeExpiry(t, expiresIn) == t + (expiresIn - MarginSeconds) * MsPerSecond

\* prev: the call was answered from a cache entry or a refresh that was made
\* with another credential than the one configured when the call started
IdleCaller == [st |-> "idle", p |-> Null, win |-> Null, tok |-> NoToken,
               err |-> "none", at |-> 0, src |-> "none", prev |-> FALSE]

PendingRefreshes == {i \in 1..Len(refreshes) : refreshes[i].pc # "done"}

\* the refresh a call made now belongs to: the one in flight, or a new one
WindowOf == IF PendingRefreshes = {} THEN Len(refreshes) + 1
            ELSE CHOOSE i \in PendingRefreshes : \A j \in PendingRefreshes : i <= j

\* main.ts:503-524  the permissions of DEFAULT_SETTINGS; confirmDestructive is
\* not among them (undefined, read as false at vertex.ts:778)
DEFAULT_SETTINGS ==
  [permVaultRead |-> TRUE, permVaultWrite |-> TRUE, permVaultDelete |-> FALSE,
   permWeb |-> TRUE, permTerminal |-> FALSE, confirmDestructive |-> FALSE]

\* a host with the default settings, in which no chat has run
HostIdle ==
  /\ pluginSettings = DEFAULT_SETTINGS
  /\ providerCalls = << >>
  /\ failures = << >>
  /\ aborted = FALSE

\* ChatView.ts:12-15, 174  the view after onOpen(): nothing is being generated
ViewIdle ==
  /\ isGenerating = FALSE
  /\ abortController = Null
  /\ generations = << >>

\* vertex.ts:924-928  a new AsyncQueue
\* vertex.ts:928  error: Error | null = null
NoError == "null"

QueueIdle ==
  /\ queue = << >>
  /\ resolveNext = Null
  /\ rejectNext = Null
  /\ closed = FALSE
  /\ error = NoError
  /\ pushLog = << >>
  /\ received = << >>

\* no response is being decoded
DecoderIdle ==
  /\ wire = << >>
  /\ response = << >>
  /\ buffer = << >>
  /\ scenario = << >>

\* no chat() invocation has been started
ChatFresh ==
  /\ pc = "idle"
  /\ attempt = 0
  /\ runLocation = ""
  /\ contents = << >>
  /\ parts = << >>
  /\ streamEnd = "close"
  /\ accumulatedText = << >>
  /\ accumulatedThinking = << >>
  /\ isThinking = FALSE
  /\ accumulatedFunctions = << >>
  /\ toolIdx = 0
  /\ functionResponseParts = << >>
  /\ executedActions = << >>
  /\ emitted = << >>
  /\ requests = 0
  /\ turnsLog = << >>
  /\ execLog = << >>
  /\ chatError = << >>

\* a first chat: the caller has no prior history
ChatIdle == ChatFresh /\ history = << >>

InitToken ==
  /\ serviceAccountJson \in Creds
  /\ location = "us-central1"
  /\ modelId = "gemini-1.5-pro"
  /\ accessToken = NoToken
  /\ tokenExpiry = 0
  /\ isRefreshingToken = FALSE
  /\ tokenRefreshPromise = Null
  /\ refreshes = << >>
  /\ callers = [c \in Callers |-> IdleCaller]
  /\ now = TickMs
  /\ windowReqs = 0
  /\ ChatIdle
  /\ DecoderIdle
  /\ HostIdle
  /\ ViewIdle
  /\ QueueIdle

\* vertex.ts:22-28 (customContextPrompt only feeds the system instruction text)
UpdateSettings(settings) ==
  /\ serviceAccountJson' = settings.serviceAccountJson
  /\ location' = settings.location
  /\ modelId' = settings.modelId
  /\ accessToken' = NoToken
  /\ UNCHANGED <<tokenExpiry, isRefreshingToken, tokenRefreshPromise, refreshes,
                 callers, now, windowReqs>>
  /\ UNCHANGED <<chatVars, decVars, viewVars, queueVars, hostVars>>

\* vertex.ts:30-84, up to the first await of the closure
GetAccessTokenCall(c) ==
  /\ callers[c].st = "idle"
  /\ IF CacheValid
     THEN \* vertex.ts:32
          /\ callers' = [callers EXCEPT ![c] =
                [st |-> "returned", p |-> Null, win |-> Null, tok |-> accessToken,
                 err |-> "none", at |-> now, src |-> "cache",
                 prev |-> accessToken.cred # serviceAccountJson]]
          /\ UNCHANGED <<serviceAccountJson, accessToken, tokenExpiry, isRefreshingToken,
                         tokenRefreshPromise, refreshes, now, windowReqs>>
     ELSE IF RefreshInFlight
     THEN \* vertex.ts:36
          /\ callers' = [callers EXCEPT ![c] =
                [IdleCaller EXCEPT !.st = "waiting", !.p = tokenRefreshPromise,
                                   !.win = WindowOf,
                                   !.prev = refreshes[tokenRefreshPromise].cred
                                              # serviceAccountJson]]
          /\ UNCHANGED <<serviceAccountJson, accessToken, tokenExpiry, isRefreshingToken,
                         tokenRefreshPromise, refreshes, now, windowReqs>>
     ELSE \* vertex.ts:39-83
          LET id == Len(refreshes) + 1
              e == CredentialError(serviceAccountJson)
          IN /\ id <= MaxRefreshes
             /\ windowReqs' = IF PendingRefreshes = {} THEN 0 ELSE windowReqs
             /\ IF e # "none"
                THEN \* the closure throws before any await: its finally block runs
                     \* first, then line 40 stores the rejected promise
                     /\ refreshes' = Append(refreshes,
                           [pc |-> "done", cred |-> serviceAccountJson, sent |-> 0,
                            tok |-> NoToken, err |-> e])
                     /\ isRefreshingToken' = FALSE
                     /\ tokenRefreshPromise' = id
                     /\ callers' = [callers EXCEPT ![c] =
                           [IdleCaller EXCEPT !.st = "threw", !.p = id, !.win = WindowOf,
                                              !.err = e, !.at = now, !.src = "refresh"]]
                ELSE /\ refreshes' = Append(refreshes,
                           [pc |-> "sign", cred |-> serviceAccountJson, sent |-> 0,
                            tok |-> NoToken, err |-> "none"])
                     /\ isRefreshingToken' = TRUE
                     /\ tokenRefreshPromise' = id
                     /\ callers' = [callers EXCEPT ![c] =
                           [IdleCaller EXCEPT !.st = "waiting", !.p = id, !.win = WindowOf]]
             /\ UNCHANGED <<serviceAccountJson, accessToken, tokenExpiry, now>>

\* a getAccessToken() call of some other user of the service
GetAccessToken(c) == GetAccessTokenCall(c) /\ UNCHANGED <<svcVars, chatVars, decVars, viewVars, queueVars, hostVars>>

\* every caller awaiting promise i is resumed with its outcome
Settle(cs, i, tok, e) ==
  [c \in Callers |->
     IF cs[c].st = "waiting" /\ cs[c].p = i
     THEN [cs[c] EXCEPT !.st = IF e = "none" THEN "returned" ELSE "threw",
                        !.tok = tok, !.err = e, !.at = now, !.src = "refresh"]
     ELSE cs[c]]

\* vertex.ts:57-65: createSignedJWT settles; the exchange request is sent, or
\* the closure ends in its finally block (vertex.ts:77-80)
RefreshSigned(i) ==
  /\ UNCHANGED <<svcVars, chatVars, decVars, viewVars, queueVars, hostVars>>
  /\ i \in 1..Len(refreshes)
  /\ refreshes[i].pc = "sign"
  /\ IF Signable(refreshes[i].cred)
     THEN /\ refreshes' = [refreshes EXCEPT ![i].pc = "exchange", ![i].sent = @ + 1]
          /\ windowReqs' = windowReqs + 1
          /\ UNCHANGED <<isRefreshingToken, tokenRefreshPromise, callers>>
     ELSE /\ refreshes' = [refreshes EXCEPT ![i].pc = "done", ![i].err = "sign failed"]
          /\ isRefreshingToken' = FALSE
          /\ tokenRefreshPromise' = Null
          /\ callers' = Settle(callers, i, NoToken, "sign failed")
          /\ UNCHANGED windowReqs
  /\ UNCHANGED <<serviceAccountJson, accessToken, tokenExpiry, now>>

\* vertex.ts:67-80: the exchange answers 200 with a token and expires_in
ExchangeOk(i, expiresIn) ==
  /\ UNCHANGED <<svcVars, chatVars, decVars, viewVars, queueVars, hostVars>>
  /\ i \in 1..Len(refreshes)
  /\ refreshes[i].pc = "exchange"
  /\ LET tok == [id |-> i, cred |-> refreshes[i].cred, exp |-> now + expiresIn * MsPerSecond]
     IN /\ accessToken' = tok
        /\ tokenExpiry' = ComputeExpiry(now, expiresIn)
        /\ refreshes' = [refreshes EXCEPT ![i].pc = "done", ![i].tok = tok]
        /\ callers' = Settle(callers, i, tok, "none")
  /\ isRefreshingToken' = FALSE
  /\ tokenRefreshPromise' = Null
  /\ UNCHANGED <<serviceAccountJson, now, windowReqs>>

\* a closure without the finally block of vertex.ts:77-80
ExchangeRejected_NoFinally(i) ==
  /\ UNCHANGED <<svcVars, chatVars, decVars, viewVars, queueVars, hostVars>>
  /\ i \in 1..Len(refreshes)
  /\ refreshes[i].pc = "exchange"
  /\ refreshes' = [refreshes EXCEPT ![i].pc = "done", ![i].err = "Failed to refresh token"]
  /\ callers' = Settle(callers, i, NoToken, "Failed to refresh token")
  /\ UNCHANGED <<serviceAccountJson, accessToken, tokenExpiry, isRefreshingToken,
                 tokenRefreshPromise, now, windowReqs>>

\* vertex.ts:67-69, 77-80: the exchange answers with a status other than 200
ExchangeRejected(i) ==
  /\ UNCHANGED <<svcVars, chatVars, decVars, viewVars, queueVars, hostVars>>
  /\ i \in 1..Len(refreshes)
  /\ refreshes[i].pc = "exchange"
  /\ refreshes' = [refreshes EXCEPT ![i].pc = "done", ![i].err = "Failed to refresh token"]
  /\ callers' = Settle(callers, i, NoToken, "Failed to refresh token")
  /\ isRefreshingToken' = FALSE
  /\ tokenRefreshPromise' = Null
  /\ UNCHANGED <<serviceAccountJson, accessToken, tokenExpiry, now, windowReqs>>

Tick ==
  /\ UNCHANGED <<svcVars, chatVars, decVars, viewVars, queueVars, hostVars>>
  /\ now < MaxTicks * TickMs
  /\ now' = now + TickMs
  /\ UNCHANGED <<serviceAccountJson, accessToken, tokenExpiry, isRefreshingToken,
                 tokenRefreshPromise, refreshes, callers, windowReqs>>

\* reconfigurations: every credential, the region and the model unchanged
TokenSettings == {[serviceAccountJson |-> cred, location |-> "us-central1",
                   modelId |-> "gemini-1.5-pro"] : cred \in Creds}

NextToken ==
  \/ \E settings \in TokenSettings : UpdateSettings(settings)
  \/ \E c \in Callers : GetAccessToken(c)
  \/ \E i \in 1..MaxRefreshes : RefreshSigned(i)
  \/ \E i \in 1..MaxRefreshes, l \in Lifetimes : ExchangeOk(i, l)
  \/ \E i \in 1..MaxRefreshes : ExchangeRejected(i)
  \/ Tick

SpecToken == InitToken /\ [][NextToken]_vars

\* ------------------------------------------------------------------------
\* Strings are sequences of symbols. The word "thinking" is the two symbols
\* "thin" "king", and a backtick is the symbol "bt", so that a delimiter can be cut
\* inside the word as well as between its backticks.
\* ------------------------------------------------------------------------
OpenMarker == <<"bt", "bt", "bt", "thin", "king">>
CloseMarker == <<"bt", "bt", "bt">>

\* String.prototype.indexOf(m): the first 0-based position of m in s, or -1
IndexOf(s, m) ==
  LET hits == {i \in 0..(Len(s) - Len(m)) : SubSeq(s, i + 1, i + Len(m)) = m}
  IN IF hits = {} THEN -1 ELSE CHOOSE i \in hits : \A j \in hits : i <= j

\* String.prototype.substring(a, b) and substring(a)
Substring(s, a, b) == SubSeq(s, a + 1, b)
SubstringFrom(s, a) == SubSeq(s, a + 1, Len(s))

\* vertex.ts:663-689  the loop over the text of one part;
\* st = [text, thinking, isThinking]
RECURSIVE ThinkingParser(_, _)
ThinkingParser(remaining, st) ==
  IF Len(remaining) = 0 THEN st
  ELSE IF ~st.isThinking
  THEN LET startIdx == IndexOf(remaining, OpenMarker)
       IN IF startIdx # -1
          THEN ThinkingParser(SubstringFrom(remaining, startIdx + Len(OpenMarker)),
                              [st EXCEPT !.text = @ \o Substring(remaining, 0, startIdx),
                                         !.isThinking = TRUE])
          ELSE [st EXCEPT !.text = @ \o remaining]
  ELSE LET endIdx == IndexOf(remaining, CloseMarker)
       IN IF endIdx # -1
          THEN ThinkingParser(SubstringFrom(remaining, endIdx + Len(CloseMarker)),
                              [st EXCEPT !.thinking = @ \o Substring(remaining, 0, endIdx),
                                         !.isThinking = FALSE])
          ELSE [st EXCEPT !.thinking = @ \o remaining]

\* ------------------------------------------------------------------------
\* AgentLoop: VertexService.chat and VertexService.chatInternal
\* ------------------------------------------------------------------------

\* vertex.ts:301, 303, 317
DefaultModel == "gemini-2.0-flash-exp"
\* vertex.ts:290, 298, 302
DefaultLocation == "us-central1"

\* vertex.ts:317
EffectiveModel(mid) == IF mid = "" THEN DefaultModel ELSE mid

\* vertex.ts:318-323  isEndpoint || isClaude || modelId.includes("imagen")
NonStreaming(mid) == mid \in {"claude-3-5-sonnet", "1234567890", "imagen-3.0-generate-001"}

\* vertex.ts:296  error.message.includes(...); a message is the sequence of
\* its fragments: what kind of error, the status, then the words of the body
Includes(msg, fragment) == \E i \in 1..Len(msg) : msg[i] = fragment

\* the parts a streamed turn may carry
TextPart(str) == [k |-> "text", s |-> str]
CallPart(name, args) == [k |-> "call", name |-> name, args |-> args]

ReadA == CallPart("read_file", "a.md")
CreateB == CallPart("create_note", "b.md")
Bogus == CallPart("no_such_tool", "x")
DeleteC == CallPart("delete_file", "c.md")
RunCmd == CallPart("run_terminal_command", "ls")
FetchUrl == CallPart("fetch_url", "u")
ReadMissing == CallPart("read_file", "undefined")
ListFiles == CallPart("list_files", "undefined")
Answer == TextPart(<<"Done.">>)
Thought == TextPart(OpenMarker \o <<"why">> \o CloseMarker \o <<"so">>)

\* vertex.ts:863-908  what one request to the model is answered with: parts
\* decoded before the response ends, and how it ends ("close", or the
\* message of the error the queue fails with)
Turn(ps, end) == [parts |-> ps, end |-> end]

Turns ==
  { Turn(<< >>, "close"), Turn(<<Answer>>, "close"), Turn(<<Thought>>, "close"),
    Turn(<<ReadA>>, "close"), Turn(<<Answer, CreateB>>, "close"),
    Turn(<<ReadA, Bogus>>, "close"), Turn(<<DeleteC>>, "close"),
    Turn(<<RunCmd, FetchUrl>>, "close"), Turn(<<ReadMissing, ListFiles>>, "close"),
    Turn(<< >>, "404"), Turn(<< >>, "400"), Turn(<<ReadA>>, "503"),
    Turn(<< >>, "403"), Turn(<< >>, "429 quota") }

FinalTurn == Turn(<<Answer>>, "close")

\* vertex.ts:877-886  the status and the body of a response that is an error:
\* a model that does not exist, a quota of 400 requests that is used up
HttpStatus(end) == IF end = "429 quota" THEN "429" ELSE end
ErrorBody(end) ==
  IF end = "404" THEN <<"not found">>
  ELSE IF end = "429 quota" THEN <<"400">>
  ELSE << >>

\* vertex.ts:884  "HTTP Error <status>: <body>"
ErrorMessage(end) == <<"HTTP Error", HttpStatus(end)>> \o ErrorBody(end)

\* how the latest request was answered
LastTurn == turnsLog[Len(turnsLog)]

HasCalls(turn) == turn.end = "close" /\ \E i \in 1..Len(turn.parts) : turn.parts[i].k = "call"

\* a model that is stuck on one file
StuckTurn == Turn(<<ReadA>>, "close")

\* the latest request failed: the next one is the fallback retry
Retrying == turnsLog # << >> /\ LastTurn.end \notin {"close", "predict"}

\* the model answers freely for the first FreeRounds requests and for a
\* fallback retry; after that a model that is stuck keeps asking for the same
\* file, and it gives a plain answer at the latest to request MaxRounds + 1
TurnChoices ==
  IF requests < FreeRounds \/ Retrying THEN Turns
  ELSE IF requests < MaxRounds /\ turnsLog # << >> /\ LastTurn = StuckTurn THEN {LastTurn}
  ELSE {FinalTurn}

\* vertex.ts:592-596
UserTurn == [role |-> "user", kind |-> "prompt"]

\* vertex.ts:589  let contents = [...history]: contents is a new array, so a
\* push to it does not reach the array of the caller
SharesHistory_Alias == TRUE
SharesHistory == FALSE

\* vertex.ts:314-320, 589-630: chatInternal() up to its first await
Enter(hist, initialText, initialThinking, loc, mid, turn) ==
  /\ runLocation' = loc
  /\ requests' = requests + 1
  /\ toolIdx' = 0
  /\ functionResponseParts' = << >>
  /\ executedActions' = << >>
  /\ isThinking' = FALSE
  /\ accumulatedFunctions' = << >>
  /\ IF NonStreaming(EffectiveModel(mid))
     THEN /\ pc' = "predict"
          /\ contents' = hist
          /\ parts' = << >>
          /\ streamEnd' = "close"
          /\ accumulatedText' = << >>
          /\ accumulatedThinking' = << >>
          /\ turnsLog' = Append(turnsLog, Turn(<< >>, "predict"))
     ELSE /\ pc' = "stream"
          /\ contents' = Append(hist, UserTurn)
          /\ parts' = turn.parts
          /\ streamEnd' = turn.end
          /\ accumulatedText' = initialText
          /\ accumulatedThinking' = initialThinking
          /\ turnsLog' = Append(turnsLog, turn)
  /\ history' = IF SharesHistory THEN contents' ELSE history

EnterChoices(mid) == IF NonStreaming(EffectiveModel(mid)) THEN {FinalTurn} ELSE TurnChoices

\* vertex.ts:302, 307  the retry is given the history chat() was called with
RetryHistory_Carried == contents
RetryHistory == history

\* a chat() that handles every configuration error by one more request in
\* the default region
Throw_Unbounded(msg) ==
  IF Includes(msg, "404") \/ Includes(msg, "not found") \/ Includes(msg, "400")
  THEN /\ failures' = Append(failures, msg)
       /\ modelId' = DefaultModel
       /\ attempt' = attempt + 1
       /\ \E turn \in EnterChoices(DefaultModel) :
             Enter(RetryHistory, << >>, << >>, DefaultLocation, DefaultModel, turn)
       /\ UNCHANGED <<location, emitted, execLog, chatError>>
  ELSE /\ failures' = Append(failures, msg)
       /\ pc' = "failed"
       /\ chatError' = msg
       /\ UNCHANGED <<svcVars, attempt, history, runLocation, contents, parts, streamEnd,
                      accumulatedText, accumulatedThinking, isThinking,
                      accumulatedFunctions, toolIdx, functionResponseParts,
                      executedActions, emitted, requests, turnsLog, execLog>>

\* vertex.ts:294-311: an error leaves chatInternal(); chat() falls back once
Throw(msg) ==
  LET isConfigError == Includes(msg, "404") \/ Includes(msg, "not found") \/ Includes(msg, "400")
  IN IF attempt = 1 /\ runLocation # DefaultLocation /\ isConfigError
     THEN /\ failures' = Append(failures, msg)
          /\ modelId' = DefaultModel
          /\ attempt' = 2
          /\ \E turn \in EnterChoices(DefaultModel) :
                Enter(RetryHistory, << >>, << >>, DefaultLocation, DefaultModel, turn)
          /\ UNCHANGED <<location, emitted, execLog, chatError>>
     ELSE IF attempt = 1 /\ Includes(msg, "400") /\ modelId # DefaultModel
     THEN /\ failures' = Append(failures, msg)
          /\ modelId' = DefaultModel
          /\ attempt' = 2
          /\ \E turn \in EnterChoices(DefaultModel) :
                Enter(RetryHistory, << >>, << >>, runLocation, DefaultModel, turn)
          /\ UNCHANGED <<location, emitted, execLog, chatError>>
     ELSE /\ failures' = Append(failures, msg)
          /\ pc' = "failed"
          /\ chatError' = msg
          /\ UNCHANGED <<svcVars, attempt, history, runLocation, contents, parts, streamEnd,
                         accumulatedText, accumulatedThinking, isThinking,
                         accumulatedFunctions, toolIdx, functionResponseParts,
                         executedActions, emitted, requests, turnsLog, execLog>>

\* vertex.ts:285-287: chat() asks the broker for a token
ChatStart ==
  /\ pc = "idle"
  /\ GetAccessTokenCall("c1")
  /\ pc' = "token"
  /\ UNCHANGED <<svcVars, attempt, history, runLocation, contents, parts, streamEnd,
                 accumulatedText, accumulatedThinking, isThinking, accumulatedFunctions,
                 toolIdx, functionResponseParts, executedActions, emitted, requests,
                 turnsLog, execLog, chatError>>
  /\ UNCHANGED <<decVars, viewVars, queueVars, hostVars>>

\* vertex.ts:287-293: the token arrived, chatInternal() starts; or
\* getAccessToken() rejected, outside the try block
ChatTokenSettled ==
  /\ pc = "token"
  /\ callers["c1"].st \in {"returned", "threw"}
  /\ IF callers["c1"].st = "returned"
     THEN /\ attempt' = 1
          /\ \E turn \in EnterChoices(modelId) :
                Enter(history, << >>, << >>,
                      IF location = "" THEN DefaultLocation ELSE location, modelId, turn)
          /\ UNCHANGED <<svcVars, emitted, execLog, chatError>>
     ELSE /\ pc' = "failed"
          /\ chatError' = <<callers["c1"].err>>
          /\ UNCHANGED <<svcVars, attempt, history, runLocation, contents, parts, streamEnd,
                         accumulatedText, accumulatedThinking, isThinking,
                         accumulatedFunctions, toolIdx, functionResponseParts,
                         executedActions, emitted, requests, turnsLog, execLog>>
  /\ UNCHANGED <<tokenVars, decVars, viewVars, queueVars, hostVars>>

\* ChatView.ts:256-257: the view receives the response just yielded; when
\* signal.aborted is set it leaves its loop, which ends the generator where
\* it stands, otherwise the generator goes on to position next
AfterYield_Eager(next) == next
AfterYield(next) == IF aborted THEN "cancelled" ELSE next

\* vertex.ts:363-385: the single response of a non-streaming model
PredictResponse(status) ==
  /\ pc = "predict"
  /\ IF status = "200"
     THEN /\ emitted' = Append(emitted, [text |-> <<"Done.">>, actions |-> << >>])
          /\ pc' = AfterYield("done")
          /\ UNCHANGED <<svcVars, attempt, history, runLocation, contents, parts, streamEnd,
                         accumulatedText, accumulatedThinking, isThinking,
                         accumulatedFunctions, toolIdx, functionResponseParts,
                         executedActions, requests, turnsLog, execLog, chatError,
                         failures>>
     ELSE Throw(<<"API Error", status>>)
  /\ UNCHANGED <<tokenVars, decVars, viewVars, queueVars, pluginSettings, providerCalls, aborted>>

\* vertex.ts:626-630  the locals the streaming loop folds the parts into;
\* err is set when an exception leaves the loop
Decoder(buf, text, thinking, thinkingNow, functions, out) ==
  [buffer |-> buf, text |-> text, thinking |-> thinking, isThinking |-> thinkingNow,
   functions |-> functions, emitted |-> out, err |-> FALSE]

\* a parser whose delimiter state starts anew with every part
ApplyPart_FreshState(d, part) ==
  IF part.k = "text" /\ part.s # << >>
  THEN LET st == ThinkingParser(part.s, [text |-> d.text, thinking |-> d.thinking,
                                         isThinking |-> FALSE])
       IN [d EXCEPT !.text = st.text, !.thinking = st.thinking,
                    !.isThinking = st.isThinking,
                    !.emitted = Append(@, [text |-> st.text, isThinking |-> st.isThinking,
                                           thinkingText |-> st.thinking, actions |-> << >>])]
  ELSE IF part.k = "call" THEN [d EXCEPT !.functions = Append(@, part)]
  ELSE d

\* vertex.ts:654-703: one part of a decoded frame
ApplyPart(d, part) ==
  IF part.k = "text" /\ part.s # << >>
  THEN LET st == ThinkingParser(part.s, [text |-> d.text, thinking |-> d.thinking,
                                         isThinking |-> d.isThinking])
       IN [d EXCEPT !.text = st.text, !.thinking = st.thinking,
                    !.isThinking = st.isThinking,
                    !.emitted = Append(@, [text |-> st.text, isThinking |-> st.isThinking,
                                           thinkingText |-> st.thinking, actions |-> << >>])]
  ELSE IF part.k = "call" THEN [d EXCEPT !.functions = Append(@, part)]
  ELSE d

\* the streaming loop takes the next part of the response
StreamPart ==
  /\ pc = "stream"
  /\ parts # << >>
  /\ \E d \in {ApplyPart(Decoder(buffer, accumulatedText, accumulatedThinking, isThinking,
                               accumulatedFunctions, emitted), Head(parts))} :
        /\ accumulatedText' = d.text
        /\ accumulatedThinking' = d.thinking
        /\ isThinking' = d.isThinking
        /\ accumulatedFunctions' = d.functions
        /\ emitted' = d.emitted
        /\ pc' = IF d.emitted # emitted THEN AfterYield("stream") ELSE "stream"
  /\ parts' = Tail(parts)
  /\ UNCHANGED <<svcVars, attempt, history, runLocation, contents, streamEnd, toolIdx,
                 functionResponseParts, executedActions, requests, turnsLog, execLog,
                 chatError>>
  /\ UNCHANGED <<tokenVars, decVars, viewVars, queueVars, hostVars>>

\* a loop that runs the calls it has buffered when the response fails
StreamError_RunsBuffered ==
  /\ pc = "stream"
  /\ parts = << >>
  /\ streamEnd # "close"
  /\ IF Len(accumulatedFunctions) > 0
     THEN /\ toolIdx' = 1
          /\ pc' = "pending"
          /\ UNCHANGED <<svcVars, attempt, history, runLocation, contents, parts, streamEnd,
                         accumulatedText, accumulatedThinking, isThinking,
                         accumulatedFunctions, functionResponseParts, executedActions,
                         emitted, requests, turnsLog, execLog, chatError, failures>>
     ELSE Throw(ErrorMessage(streamEnd))
  /\ UNCHANGED <<tokenVars, decVars, viewVars, queueVars, pluginSettings, providerCalls, aborted>>

\* vertex.ts:877-903, 965, 819-822: the response fails; the for-await throws
StreamError ==
  /\ pc = "stream"
  /\ parts = << >>
  /\ streamEnd # "close"
  /\ Throw(ErrorMessage(streamEnd))
  /\ UNCHANGED <<tokenVars, decVars, viewVars, queueVars, pluginSettings, providerCalls, aborted>>

\* vertex.ts:718-721  the model turn recorded before the tools run
ModelTurn(text, functions) ==
  [role |-> "model", text |-> IF text = << >> THEN <<" ">> ELSE text,
   calls |-> <<functions[1]>>]

\* vertex.ts:712-723: the response closed
StreamClose ==
  /\ pc = "stream"
  /\ parts = << >>
  /\ streamEnd = "close"
  /\ IF Len(accumulatedFunctions) > 0
     THEN /\ contents' = Append(contents, ModelTurn(accumulatedText, accumulatedFunctions))
          /\ history' = IF SharesHistory THEN contents' ELSE history
          /\ toolIdx' = 1
          /\ pc' = "pending"
     ELSE /\ pc' = "done"
          /\ UNCHANGED <<contents, toolIdx, history>>
  /\ UNCHANGED <<svcVars, attempt, runLocation, parts, streamEnd, accumulatedText,
                 accumulatedThinking, isThinking, accumulatedFunctions,
                 functionResponseParts, executedActions, emitted, requests, turnsLog,
                 execLog, chatError>>
  /\ UNCHANGED <<tokenVars, decVars, viewVars, queueVars, hostVars>>

\* vertex.ts:730
ToolPending ==
  /\ pc = "pending"
  /\ LET funcCall == accumulatedFunctions[toolIdx]
     IN emitted' = Append(emitted,
           [text |-> accumulatedText, thinkingText |-> accumulatedThinking,
            actions |-> <<[tool |-> funcCall.name, input |-> funcCall.args,
                           status |-> "pending"]>>])
  /\ pc' = AfterYield("exec")
  /\ UNCHANGED <<svcVars, attempt, history, runLocation, contents, parts, streamEnd,
                 accumulatedText, accumulatedThinking, isThinking, accumulatedFunctions,
                 toolIdx, functionResponseParts, executedActions, requests, turnsLog,
                 execLog, chatError>>
  /\ UNCHANGED <<tokenVars, decVars, viewVars, queueVars, hostVars>>

\* a functionCall that carries no args (vertex.ts:726: args is undefined)
Missing == "undefined"

\* vertex.ts:739-795  the names of the dispatch table the model explores
ProviderTools == {"list_files", "read_file", "create_note", "delete_file",
                  "run_terminal_command", "fetch_url"}

\* the tools of the dispatch table that call a provider
HasProvider(name) == name \in ProviderTools

\* the branches that read a field of args before they call the provider
DerefsArgs(name) == name \in ProviderTools \ {"list_files"}

\* vertex.ts:776-780  the security check of run_terminal_command
TerminalBlocked_Never(name) == FALSE
TerminalBlocked(name) == name = "run_terminal_command" /\ pluginSettings.confirmDestructive

\* vertex.ts:801-803  catch (e) { result = { status: 'error', message: e.message } }
CatchToolError_Rethrow(message) == [thrown |-> message]
CatchToolError(message) == [status |-> "error", message |-> message]

\* vertex.ts:796-798
UnknownTool_NoResult(name) == [undefined |-> TRUE]
UnknownTool(name) == [status |-> "error", message |-> <<"Unknown tool: ", name>>]

\* the call gets as far as the provider: vaultService, execAsync or requestUrl
Dispatched(name, args) ==
  /\ HasProvider(name)
  /\ ~TerminalBlocked(name)
  /\ ~(DerefsArgs(name) /\ args = Missing)

\* what the provider answers when it does not throw
ProviderResult(name, args) ==
  IF name = "list_files" THEN [files |-> <<"a.md">>]
  ELSE IF name = "read_file" THEN [content |-> args]
  ELSE IF name = "fetch_url" THEN [status |-> "success", content_snippet |-> args]
  ELSE IF name = "run_terminal_command" THEN [status |-> "success", stdout |-> args]
  ELSE [status |-> "success", message |-> <<name, args>>]

\* vertex.ts:732-803: the dispatch on the name of the tool; outcome is what the
\* provider does ("ok", or "throws")
ExecuteTool(name, args, outcome) ==
  IF ~HasProvider(name) THEN UnknownTool(name)
  ELSE IF TerminalBlocked(name) THEN CatchToolError("Terminal commands are blocked")
  ELSE IF DerefsArgs(name) /\ args = Missing THEN CatchToolError("TypeError")
  ELSE IF outcome = "throws" THEN CatchToolError(<<"provider failed", name>>)
  ELSE ProviderResult(name, args)

\* vertex.ts:805  result.status
StatusOf(result) == IF "status" \in DOMAIN result THEN result.status ELSE "undefined"

\* vertex.ts:806  functionResponseParts.push({ functionResponse: ... })
RecordResponse_Unshift(responseParts, part) == <<part>> \o responseParts
RecordResponse(responseParts, part) == Append(responseParts, part)

\* the provider may fail in the first tool cycle of the invocation
ProviderOutcomes == IF requests = 1 THEN {"ok", "throws"} ELSE {"ok"}

\* vertex.ts:732-817: run the tool; after the last one, send the results back
ToolExec(outcome) ==
  /\ pc = "exec"
  /\ LET funcCall == accumulatedFunctions[toolIdx]
         result == ExecuteTool(funcCall.name, funcCall.args, outcome)
         action == [tool |-> funcCall.name, input |-> funcCall.args, output |-> result,
                    status |-> StatusOf(result)]
         responses == RecordResponse(functionResponseParts,
                                     [name |-> funcCall.name, content |-> result])
     IN /\ execLog' = Append(execLog, funcCall)
        /\ providerCalls' = IF Dispatched(funcCall.name, funcCall.args)
                            THEN Append(providerCalls, [name |-> funcCall.name,
                                                        args |-> funcCall.args,
                                                        outcome |-> outcome])
                            ELSE providerCalls
        /\ IF toolIdx < Len(accumulatedFunctions)
           THEN /\ executedActions' = Append(executedActions, action)
                /\ functionResponseParts' = responses
                /\ toolIdx' = toolIdx + 1
                /\ pc' = "pending"
                /\ UNCHANGED <<runLocation, contents, parts, streamEnd, accumulatedText,
                               accumulatedThinking, isThinking, accumulatedFunctions,
                               requests, turnsLog, history>>
           ELSE \E turn \in EnterChoices(modelId) :
                   Enter(Append(contents, [role |-> "user", responses |-> responses]),
                         accumulatedText, accumulatedThinking, runLocation, modelId, turn)
  /\ UNCHANGED <<svcVars, attempt, emitted, chatError>>
  /\ UNCHANGED <<tokenVars, decVars, viewVars, queueVars, pluginSettings, failures, aborted>>

\* ChatView.ts:200-207  stopGeneration(): the user stops the generation that
\* handleSendMessage() started
StopGeneration ==
  /\ pc \notin {"idle", "done", "failed", "cancelled"}
  /\ ~aborted
  /\ aborted' = TRUE
  /\ UNCHANGED <<tokenVars, svcVars, chatVars, decVars, viewVars, queueVars, pluginSettings, providerCalls,
                 failures>>

\* the chats the model explores: a usable or an unusable credential, two
\* regions, a streaming model, the default model and a non-streaming one
ChatSettings ==
  [serviceAccountJson : {"credA", "badkey"},
   location : {"us-central1", "europe-west4"},
   modelId : {"gemini-1.5-pro", DefaultModel, "claude-3-5-sonnet"}]

\* main.ts:842-910  the permission toggles: the defaults, and everything
\* forbidden with destructive actions to be confirmed
SettingsChoices ==
  { DEFAULT_SETTINGS,
    [permVaultRead |-> FALSE, permVaultWrite |-> FALSE, permVaultDelete |-> FALSE,
     permWeb |-> FALSE, permTerminal |-> FALSE, confirmDestructive |-> TRUE] }

\* ChatView.ts:256  this.plugin.settings.history: a first chat, or one that
\* follows an earlier exchange
PriorHistories ==
  { << >>,
    <<[role |-> "user", kind |-> "earlier"],
      [role |-> "model", text |-> <<"earlier">>, calls |-> << >>]>> }

InitChat ==
  /\ \E settings \in ChatSettings :
        /\ serviceAccountJson = settings.serviceAccountJson
        /\ location = settings.location
        /\ modelId = settings.modelId
  /\ accessToken = NoToken
  /\ tokenExpiry = 0
  /\ isRefreshingToken = FALSE
  /\ tokenRefreshPromise = Null
  /\ refreshes = << >>
  /\ callers = [c \in Callers |-> IdleCaller]
  /\ now = TickMs
  /\ windowReqs = 0
  /\ ChatFresh
  /\ history \in PriorHistories
  /\ DecoderIdle
  /\ pluginSettings \in SettingsChoices
  /\ providerCalls = << >>
  /\ failures = << >>
  /\ aborted = FALSE
  /\ ViewIdle
  /\ QueueIdle

NextChat ==
  \/ ChatStart
  \/ \E i \in 1..MaxRefreshes : RefreshSigned(i)
  \/ \E i \in 1..MaxRefreshes : ExchangeOk(i, 240)
  \/ \E i \in 1..MaxRefreshes : ExchangeRejected(i)
  \/ ChatTokenSettled
  \/ \E status \in {"200", "404", "400", "500"} : PredictResponse(status)
  \/ StreamPart
  \/ StreamError
  \/ StreamClose
  \/ ToolPending
  \/ \E outcome \in ProviderOutcomes : ToolExec(outcome)
  \/ StopGeneration

SpecChat == InitChat /\ [][NextChat]_vars

\* ------------------------------------------------------------------------
\* One chat while the clock runs
\* ------------------------------------------------------------------------

\* time passes while chat() awaits the network or a tool: the token exchange
\* (vertex.ts:57-65), the response of the model (vertex.ts:635) or a provider
\* (vertex.ts:738-790)
TimePasses ==
  /\ \/ pc \in {"stream", "exec"}
     \/ pc = "token" /\ callers["c1"].st = "waiting"
  /\ Tick

\* a streaming model in a region other than the default one, the default
\* settings, no earlier exchange
InitClock ==
  /\ serviceAccountJson = "credA"
  /\ location = "europe-west4"
  /\ modelId = "gemini-1.5-pro"
  /\ accessToken = NoToken
  /\ tokenExpiry = 0
  /\ isRefreshingToken = FALSE
  /\ tokenRefreshPromise = Null
  /\ refreshes = << >>
  /\ callers = [c \in Callers |-> IdleCaller]
  /\ now = TickMs
  /\ windowReqs = 0
  /\ ChatIdle
  /\ DecoderIdle
  /\ HostIdle
  /\ ViewIdle
  /\ QueueIdle

NextClock ==
  \/ ChatStart
  \/ \E i \in 1..MaxRefreshes : RefreshSigned(i)
  \/ \E i \in 1..MaxRefreshes : ExchangeOk(i, 240)
  \/ \E i \in 1..MaxRefreshes : ExchangeRejected(i)
  \/ ChatTokenSettled
  \/ StreamPart
  \/ StreamError
  \/ StreamClose
  \/ ToolPending
  \/ \E outcome \in ProviderOutcomes : ToolExec(outcome)
  \/ TimePasses

SpecClock == InitClock /\ [][NextClock]_vars

\* ------------------------------------------------------------------------
\* StreamDecoder: the streaming loop of chatInternal (vertex.ts:633-710).
\* The response is a sequence of symbols: "NL" is the newline, "SP" a blank,
\* "data:" the field name of an SSE line, ":" the first character of an SSE
\* comment, and a JSON payload is written { parts } where a part is t
\* followed by the symbols of its text, or f followed by a tool name.
\* ------------------------------------------------------------------------
JsonMarks == {"{", "}", "t", "f"}
LineMarks == {"NL", "SP", "data:", ":"}

\* String.prototype.split("\n")
RECURSIVE Split(_)
Split(str) ==
  LET i == IndexOf(str, <<"NL">>)
  IN IF i = -1 THEN <<str>>
     ELSE <<Substring(str, 0, i)>> \o Split(SubstringFrom(str, i + 1))

\* String.prototype.trim()
RECURSIVE TrimStart(_)
TrimStart(str) ==
  IF str # << >> /\ Head(str) = "SP" THEN TrimStart(Tail(str)) ELSE str

RECURSIVE TrimEnd(_)
TrimEnd(str) ==
  IF str # << >> /\ str[Len(str)] = "SP" THEN TrimEnd(SubSeq(str, 1, Len(str) - 1)) ELSE str

Trim(str) == TrimEnd(TrimStart(str))

\* vertex.ts:645  line.replace(/^data:\s*/, "")
StripData(line) ==
  IF line # << >> /\ Head(line) = "data:" THEN TrimStart(Tail(line)) ELSE line

\* the text of a part: the symbols up to the next part
RECURSIVE TextRun(_)
TextRun(body) ==
  IF body = << >> \/ Head(body) \in JsonMarks THEN << >>
  ELSE <<Head(body)>> \o TextRun(Tail(body))

\* the parts written in the body of a payload; "SyntaxError" when it is not
\* a sequence of parts
RECURSIVE JsonParts(_)
JsonParts(body) ==
  IF body = << >> THEN << >>
  ELSE IF Head(body) = "t"
  THEN LET str == TextRun(Tail(body))
           rest == JsonParts(SubstringFrom(body, 1 + Len(str)))
       IN IF rest = "SyntaxError" THEN rest ELSE <<TextPart(str)>> \o rest
  ELSE IF Head(body) = "f" /\ Len(body) >= 2 /\ body[2] \notin (JsonMarks \cup LineMarks)
  THEN LET rest == JsonParts(SubstringFrom(body, 2))
       IN IF rest = "SyntaxError" THEN rest ELSE <<CallPart(body[2], "a.md")>> \o rest
  ELSE "SyntaxError"

\* vertex.ts:649-653  JSON.parse(jsonStr) and data.candidates[0].content.parts
JsonParse(jsonStr) ==
  IF /\ Len(jsonStr) >= 2
     /\ jsonStr[1] = "{"
     /\ jsonStr[Len(jsonStr)] = "}"
     /\ \A i \in 2..(Len(jsonStr) - 1) : jsonStr[i] \notin (LineMarks \cup {"{", "}"})
  THEN JsonParts(SubSeq(jsonStr, 2, Len(jsonStr) - 1))
  ELSE "SyntaxError"

RECURSIVE ApplyParts(_, _)
ApplyParts(d, ps) ==
  IF ps = << >> THEN d ELSE ApplyParts(ApplyPart(d, Head(ps)), Tail(ps))

\* vertex.ts:706-708  catch (e) { console.error(...) }
OnParseError_Abort(d) == [d EXCEPT !.err = TRUE]
OnParseError(d) == d

\* vertex.ts:643-709: one complete line
ProcessLine(d, line) ==
  IF d.err THEN d
  ELSE IF Trim(line) = << >> \/ (line # << >> /\ Head(line) = ":") THEN d
  ELSE LET jsonStr == Trim(StripData(line))
       IN IF jsonStr = << >> THEN d
          ELSE LET data == JsonParse(jsonStr)
               IN IF data = "SyntaxError" THEN OnParseError(d) ELSE ApplyParts(d, data)

RECURSIVE ProcessLines(_, _)
ProcessLines(d, lines) ==
  IF lines = << >> THEN d ELSE ProcessLines(ProcessLine(d, Head(lines)), Tail(lines))

\* vertex.ts:640-641  lines = (buffer + chunk).split("\n"); buffer = lines.pop() || ""
SplitChunk_NoCarry(buf, chunk) == Split(chunk)
SplitChunk(buf, chunk) == Split(buf \o chunk)

\* vertex.ts:635-710: the body of the for-await loop, for one chunk
KeepPartialLine(d, lines) ==
  ProcessLines([d EXCEPT !.buffer = lines[Len(lines)]], SubSeq(lines, 1, Len(lines) - 1))

FeedChunk(d, chunk) == KeepPartialLine(d, SplitChunk(d.buffer, chunk))

\* the events a response is made of: a data line followed by the blank line
\* that ends an SSE event; a line whose text opens a thinking block; a line
\* with two parts, a text that closes the block and a function call, and a
\* trailing blank; a comment; a line whose JSON is cut short
TextEvent == <<"data:", "SP", "{", "t", "a", "}", "NL">>
OpenEvent == <<"data:", "{", "t", "bt", "bt", "bt", "thin", "king", "why", "}">>
CloseCallEvent == <<"data:", "{", "t", "bt", "bt", "bt", "so", "f", "read_file", "}", "SP">>
CommentEvent == <<":", "a">>
TruncatedEvent == <<"data:", "{", "t", "a">>

MalformedLines == {TruncatedEvent}
LineKinds == {TextEvent, OpenEvent, CloseCallEvent, CommentEvent} \cup MalformedLines

\* the lines in order, each ended by a newline, the last one only if terminated
RECURSIVE Encode(_, _)
Encode(lines, terminated) ==
  IF lines = << >> THEN << >>
  ELSE IF Len(lines) = 1 THEN Head(lines) \o (IF terminated THEN <<"NL">> ELSE << >>)
  ELSE Head(lines) \o <<"NL">> \o Encode(Tail(lines), terminated)

Responses == UNION {[1..n -> LineKinds] : n \in 1..MaxEvents}

NewDecoder == Decoder(<< >>, << >>, << >>, FALSE, << >>, << >>)

InitDecode ==
  /\ \E lines \in Responses, terminated \in BOOLEAN :
        /\ scenario = [lines |-> lines, terminated |-> terminated, midCut |-> FALSE]
        /\ response = Encode(lines, terminated)
        /\ wire = response
  /\ buffer = << >>
  /\ pc = "stream"
  /\ attempt = 1
  /\ history = << >>
  /\ runLocation = DefaultLocation
  /\ contents = <<UserTurn>>
  /\ parts = << >>
  /\ streamEnd = "close"
  /\ accumulatedText = << >>
  /\ accumulatedThinking = << >>
  /\ isThinking = FALSE
  /\ accumulatedFunctions = << >>
  /\ toolIdx = 0
  /\ functionResponseParts = << >>
  /\ executedActions = << >>
  /\ emitted = << >>
  /\ requests = 1
  /\ turnsLog = << >>
  /\ execLog = << >>
  /\ chatError = << >>
  /\ serviceAccountJson = "credA"
  /\ location = DefaultLocation
  /\ modelId = DefaultModel
  /\ accessToken = NoToken
  /\ tokenExpiry = 0
  /\ isRefreshingToken = FALSE
  /\ tokenRefreshPromise = Null
  /\ refreshes = << >>
  /\ callers = [c \in Callers |-> IdleCaller]
  /\ now = TickMs
  /\ windowReqs = 0
  /\ HostIdle
  /\ ViewIdle
  /\ QueueIdle

\* vertex.ts:635-710: the transport delivers the next n characters
ChunkArrives(n) ==
  /\ pc = "stream"
  /\ n \in 1..Len(wire)
  /\ \E d \in {FeedChunk(Decoder(buffer, accumulatedText, accumulatedThinking, isThinking,
                               accumulatedFunctions, emitted), SubSeq(wire, 1, n))} :
        /\ buffer' = d.buffer
        /\ accumulatedText' = d.text
        /\ accumulatedThinking' = d.thinking
        /\ isThinking' = d.isThinking
        /\ accumulatedFunctions' = d.functions
        /\ emitted' = d.emitted
        /\ pc' = IF d.err THEN "failed" ELSE "stream"
        /\ chatError' = IF d.err THEN <<"SyntaxError">> ELSE chatError
        /\ scenario' = [scenario EXCEPT !.midCut = @ \/ (d.buffer # << >> /\ n < Len(wire))]
  /\ wire' = SubstringFrom(wire, n)
  /\ UNCHANGED response
  /\ UNCHANGED <<svcVars, attempt, history, runLocation, contents, parts, streamEnd, toolIdx,
                 functionResponseParts, executedActions, requests, turnsLog, execLog>>
  /\ UNCHANGED <<tokenVars, hostVars, viewVars, queueVars>>

\* a loop that parses what is left in buffer when the response ends
ResponseEnds_Flush ==
  /\ pc = "stream"
  /\ wire = << >>
  /\ response # << >>
  /\ pc' = "decoded"
  /\ \E d \in {ProcessLine(Decoder(buffer, accumulatedText, accumulatedThinking, isThinking,
                                  accumulatedFunctions, emitted), buffer)} :
        /\ accumulatedText' = d.text
        /\ accumulatedThinking' = d.thinking
        /\ isThinking' = d.isThinking
        /\ accumulatedFunctions' = d.functions
        /\ emitted' = d.emitted
  /\ UNCHANGED <<svcVars, attempt, history, runLocation, contents, parts, streamEnd,
                 toolIdx, functionResponseParts, executedActions, requests,
                 turnsLog, execLog, chatError>>
  /\ UNCHANGED <<tokenVars, decVars, viewVars, queueVars, hostVars>>

\* vertex.ts:893-896, 712: the response ended; what is left in buffer is dropped
ResponseEnds ==
  /\ pc = "stream"
  /\ wire = << >>
  /\ response # << >>
  /\ pc' = "decoded"
  /\ UNCHANGED <<svcVars, attempt, history, runLocation, contents, parts, streamEnd,
                 accumulatedText, accumulatedThinking, isThinking, accumulatedFunctions,
                 toolIdx, functionResponseParts, executedActions, emitted, requests,
                 turnsLog, execLog, chatError>>
  /\ UNCHANGED <<tokenVars, decVars, viewVars, queueVars, hostVars>>

NextDecode ==
  \/ \E n \in 1..MaxChunk : ChunkArrives(n)
  \/ ResponseEnds

SpecDecode == InitDecode /\ [][NextDecode]_vars

\* ------------------------------------------------------------------------
\* The thinking parser fed a text that the model delivers in two parts
\* ------------------------------------------------------------------------
ThinkingTexts ==
  [pre : {<< >>, <<"a">>}, reasoning : {<<"why">>, <<"why", "why">>},
   tail : {<< >>, <<"so">>}]

\* the text as the model wrote it: the block is closed when an answer follows
Written(x) ==
  x.pre \o OpenMarker \o x.reasoning \o (IF x.tail = << >> THEN << >> ELSE CloseMarker \o x.tail)

InitThinking ==
  /\ \E x \in ThinkingTexts : \E cut \in 0..Len(Written(x)) :
        /\ scenario = [pre |-> x.pre, reasoning |-> x.reasoning, tail |-> x.tail, cut |-> cut]
        /\ parts = <<TextPart(Substring(Written(x), 0, cut)),
                     TextPart(SubstringFrom(Written(x), cut))>>
  /\ wire = << >>
  /\ response = << >>
  /\ buffer = << >>
  /\ pc = "stream"
  /\ attempt = 1
  /\ history = << >>
  /\ runLocation = DefaultLocation
  /\ contents = <<UserTurn>>
  /\ streamEnd = "close"
  /\ accumulatedText = << >>
  /\ accumulatedThinking = << >>
  /\ isThinking = FALSE
  /\ accumulatedFunctions = << >>
  /\ toolIdx = 0
  /\ functionResponseParts = << >>
  /\ executedActions = << >>
  /\ emitted = << >>
  /\ requests = 1
  /\ turnsLog = << >>
  /\ execLog = << >>
  /\ chatError = << >>
  /\ serviceAccountJson = "credA"
  /\ location = DefaultLocation
  /\ modelId = DefaultModel
  /\ accessToken = NoToken
  /\ tokenExpiry = 0
  /\ isRefreshingToken = FALSE
  /\ tokenRefreshPromise = Null
  /\ refreshes = << >>
  /\ callers = [c \in Callers |-> IdleCaller]
  /\ now = TickMs
  /\ windowReqs = 0
  /\ HostIdle
  /\ ViewIdle
  /\ QueueIdle

NextThinking ==
  \/ StreamPart
  \/ StreamClose

SpecThinking == InitThinking /\ [][NextThinking]_vars

\* ------------------------------------------------------------------------
\* MastermindChatView: handleSendMessage and stopGeneration
\* (ChatView.ts:164-305). A generation is one handleSendMessage() call: pos
\* is where it stands, aborted is signal.aborted of its AbortController.
\* ------------------------------------------------------------------------
otherVars == <<tokenVars, svcVars, chatVars, decVars, hostVars, queueVars>>

\* ChatView.ts:189-198  updateSendButton(value)
updateSendButton(value) == isGenerating' = value

\* ChatView.ts:229-241: handleSendMessage() up to its first await
handleSendMessage ==
  /\ Len(generations) < MaxGenerations
  /\ updateSendButton(TRUE)
  /\ abortController' = Len(generations) + 1
  /\ generations' = Append(generations, [pos |-> "render", aborted |-> FALSE])

\* ChatView.ts:200-207
stopGeneration ==
  IF abortController # Null
  THEN /\ generations' = [generations EXCEPT ![abortController].aborted = TRUE]
       /\ abortController' = Null
       /\ updateSendButton(FALSE)
  ELSE UNCHANGED viewVars

\* ChatView.ts:164-170  Enter in the input field
PressEnter ==
  /\ handleSendMessage
  /\ UNCHANGED otherVars

\* ChatView.ts:174-180  a click on the send button
ClickSendButton ==
  /\ IF isGenerating THEN stopGeneration ELSE handleSendMessage
  /\ UNCHANGED otherVars

\* ChatView.ts:241-256: the user message is rendered, the context is read
\* and chat() is called
LoopEntered(g) ==
  /\ g \in 1..Len(generations)
  /\ generations[g].pos = "render"
  /\ generations' = [generations EXCEPT ![g].pos = "loop"]
  /\ UNCHANGED <<isGenerating, abortController>>
  /\ UNCHANGED otherVars

\* ChatView.ts:301-304  finally
Finally(g) ==
  /\ generations' = [generations EXCEPT ![g].pos = "finished"]
  /\ updateSendButton(FALSE)
  /\ abortController' = Null

\* ChatView.ts:256-262: the loop over the responses ends, because chat() is
\* done or because a response arrived after the signal was set (break); a
\* generation that was not stopped goes on to save the exchange
LoopEnds(g) ==
  /\ g \in 1..Len(generations)
  /\ generations[g].pos = "loop"
  /\ IF generations[g].aborted
     THEN Finally(g)
     ELSE /\ generations' = [generations EXCEPT ![g].pos = "save"]
          /\ UNCHANGED <<isGenerating, abortController>>
  /\ UNCHANGED otherVars

\* ChatView.ts:292-304: chat() throws; catch, then finally
LoopThrows(g) ==
  /\ g \in 1..Len(generations)
  /\ generations[g].pos = "loop"
  /\ Finally(g)
  /\ UNCHANGED otherVars

\* ChatView.ts:262-304: the exchange is saved; finally
Saved(g) ==
  /\ g \in 1..Len(generations)
  /\ generations[g].pos = "save"
  /\ Finally(g)
  /\ UNCHANGED otherVars

InitView ==
  /\ serviceAccountJson = "credA"
  /\ location = DefaultLocation
  /\ modelId = DefaultModel
  /\ accessToken = NoToken
  /\ tokenExpiry = 0
  /\ isRefreshingToken = FALSE
  /\ tokenRefreshPromise = Null
  /\ refreshes = << >>
  /\ callers = [c \in Callers |-> IdleCaller]
  /\ now = TickMs
  /\ windowReqs = 0
  /\ ChatIdle
  /\ DecoderIdle
  /\ HostIdle
  /\ QueueIdle
  /\ ViewIdle

NextView ==
  \/ PressEnter
  \/ ClickSendButton
  \/ \E g \in 1..MaxGenerations : LoopEntered(g)
  \/ \E g \in 1..MaxGenerations : LoopEnds(g)
  \/ \E g \in 1..MaxGenerations : LoopThrows(g)
  \/ \E g \in 1..MaxGenerations : Saved(g)

SpecView == InitView /\ [][NextView]_vars

\* ------------------------------------------------------------------------
\* AsyncQueue (vertex.ts:923-979), fed by the handlers of streamRequest
\* (vertex.ts:877-903) and read by its yield*, one next() at a time.
\* received holds one entry per next() call, the promise it returned;
\* resolveNext and rejectNext hold the index of the promise they settle.
\* pushLog is the history of the producer's calls, and the field at of a
\* promise is the length of that history when next() was called.
\* ------------------------------------------------------------------------
Errors == {"errA", "errB"}

restVars == <<tokenVars, svcVars, chatVars, decVars, hostVars, viewVars>>

Pending(at) == [res |-> "pending", value |-> 0, err |-> NoError, at |-> at]
Resolved(promise, value) == [promise EXCEPT !.res = "value", !.value = value]
ResolvedDone(promise) == [promise EXCEPT !.res = "done"]
Rejected(promise, err) == [promise EXCEPT !.res = "error", !.err = err]

\* the consumer of yield* asks for the next value only when the last promise
\* has settled
ConsumerReady == \A i \in 1..Len(received) : received[i].res # "pending"

\* vertex.ts:930-940  push(value)
QueuePush_Unshift(value) ==
  /\ Len(pushLog) < MaxProduced
  /\ pushLog' = Append(pushLog, [op |-> "push", value |-> value, err |-> NoError])
  /\ IF closed
     THEN UNCHANGED <<queue, resolveNext, rejectNext, received>>
     ELSE IF resolveNext # Null
     THEN /\ received' = [received EXCEPT
                            ![resolveNext] = Resolved(received[resolveNext], value)]
          /\ resolveNext' = Null
          /\ rejectNext' = Null
          /\ UNCHANGED queue
     ELSE /\ queue' = <<value>> \o queue
          /\ UNCHANGED <<resolveNext, rejectNext, received>>
  /\ UNCHANGED <<closed, error>>
  /\ UNCHANGED restVars

QueuePush(value) ==
  /\ Len(pushLog) < MaxProduced
  /\ pushLog' = Append(pushLog, [op |-> "push", value |-> value, err |-> NoError])
  /\ IF closed
     THEN UNCHANGED <<queue, resolveNext, rejectNext, received>>
     ELSE IF resolveNext # Null
     THEN /\ received' = [received EXCEPT
                            ![resolveNext] = Resolved(received[resolveNext], value)]
          /\ resolveNext' = Null
          /\ rejectNext' = Null
          /\ UNCHANGED queue
     ELSE /\ queue' = Append(queue, value)
          /\ UNCHANGED <<resolveNext, rejectNext, received>>
  /\ UNCHANGED <<closed, error>>
  /\ UNCHANGED restVars

\* vertex.ts:942-950  close()
QueueClose_NoWake ==
  /\ Len(pushLog) < MaxProduced
  /\ pushLog' = Append(pushLog, [op |-> "close", value |-> 0, err |-> NoError])
  /\ closed' = TRUE
  /\ UNCHANGED <<resolveNext, rejectNext, received>>
  /\ UNCHANGED <<queue, error>>
  /\ UNCHANGED restVars

QueueClose ==
  /\ Len(pushLog) < MaxProduced
  /\ pushLog' = Append(pushLog, [op |-> "close", value |-> 0, err |-> NoError])
  /\ closed' = TRUE
  /\ IF resolveNext # Null
     THEN /\ received' = [received EXCEPT
                            ![resolveNext] = ResolvedDone(received[resolveNext])]
          /\ resolveNext' = Null
          /\ rejectNext' = Null
     ELSE UNCHANGED <<resolveNext, rejectNext, received>>
  /\ UNCHANGED <<queue, error>>
  /\ UNCHANGED restVars

\* vertex.ts:952-960  fail(err)
QueueFail(err) ==
  /\ Len(pushLog) < MaxProduced
  /\ pushLog' = Append(pushLog, [op |-> "fail", value |-> 0, err |-> err])
  /\ error' = err
  /\ IF rejectNext # Null
     THEN /\ received' = [received EXCEPT
                            ![rejectNext] = Rejected(received[rejectNext], err)]
          /\ resolveNext' = Null
          /\ rejectNext' = Null
     ELSE UNCHANGED <<resolveNext, rejectNext, received>>
  /\ UNCHANGED <<queue, closed>>
  /\ UNCHANGED restVars

\* vertex.ts:964-976  next()
QueueNext_QueueFirst ==
  /\ ConsumerReady
  /\ Len(received) < MaxNexts
  /\ \E promise \in {Pending(Len(pushLog))} :
       IF queue # << >>
       THEN /\ received' = Append(received, Resolved(promise, Head(queue)))
            /\ queue' = Tail(queue)
            /\ UNCHANGED <<resolveNext, rejectNext>>
       ELSE IF error # NoError
       THEN /\ received' = Append(received, Rejected(promise, error))
            /\ UNCHANGED <<queue, resolveNext, rejectNext>>
       ELSE IF closed
       THEN /\ received' = Append(received, ResolvedDone(promise))
            /\ UNCHANGED <<queue, resolveNext, rejectNext>>
       ELSE /\ received' = Append(received, promise)
            /\ resolveNext' = Len(received) + 1
            /\ rejectNext' = Len(received) + 1
            /\ UNCHANGED queue
  /\ UNCHANGED <<closed, error, pushLog>>
  /\ UNCHANGED restVars

QueueNext ==
  /\ ConsumerReady
  /\ Len(received) < MaxNexts
  /\ \E promise \in {Pending(Len(pushLog))} :
       IF error # NoError
       THEN /\ received' = Append(received, Rejected(promise, error))
            /\ UNCHANGED <<queue, resolveNext, rejectNext>>
       ELSE IF queue # << >>
       THEN /\ received' = Append(received, Resolved(promise, Head(queue)))
            /\ queue' = Tail(queue)
            /\ UNCHANGED <<resolveNext, rejectNext>>
       ELSE IF closed
       THEN /\ received' = Append(received, ResolvedDone(promise))
            /\ UNCHANGED <<queue, resolveNext, rejectNext>>
       ELSE /\ received' = Append(received, promise)
            /\ resolveNext' = Len(received) + 1
            /\ rejectNext' = Len(received) + 1
            /\ UNCHANGED queue
  /\ UNCHANGED <<closed, error, pushLog>>
  /\ UNCHANGED restVars

InitQueue ==
  /\ serviceAccountJson = "credA"
  /\ location = DefaultLocation
  /\ modelId = DefaultModel
  /\ accessToken = NoToken
  /\ tokenExpiry = 0
  /\ isRefreshingToken = FALSE
  /\ tokenRefreshPromise = Null
  /\ refreshes = << >>
  /\ callers = [c \in Callers |-> IdleCaller]
  /\ now = TickMs
  /\ windowReqs = 0
  /\ ChatIdle
  /\ DecoderIdle
  /\ HostIdle
  /\ ViewIdle
  /\ QueueIdle

NextQueue ==
  \/ QueuePush(Len(pushLog) + 1)
  \/ QueueClose
  \/ \E err \in Errors : QueueFail(err)
  \/ QueueNext

SpecQueue == InitQueue /\ [][NextQueue]_vars

\* ------------------------------------------------------------------------
\* Claims about the credential broker
\* ------------------------------------------------------------------------

C2_CachedTokenNoIO ==
  [][\A c \in Callers :
       (/\ callers[c].st = "idle" /\ callers'[c].st # "idle"
        /\ accessToken # NoToken /\ now < tokenExpiry)
       => /\ callers'[c].st = "returned"
          /\ callers'[c].tok = accessToken
          /\ refreshes' = refreshes
          /\ windowReqs' = windowReqs
          /\ isRefreshingToken' = isRefreshingToken
          /\ tokenRefreshPromise' = tokenRefreshPromise
          /\ accessToken' = accessToken /\ tokenExpiry' = tokenExpiry]_vars

C2_Witness ==
  \E c \in Callers : callers[c].st = "returned" /\ callers[c].src = "cache"
                     /\ callers[c].tok # NoToken

\* C3: every token returned by getAccessToken(), from the cache or by the
\* refresh that just completed, has at least 60 s of its provider-reported
\* lifetime left when it is returned.
C3_MarginAtHandout ==
  \A c \in Callers :
     callers[c].st = "returned" => callers[c].tok.exp - callers[c].at >= 60 * MsPerSecond

\* ------------------------------------------------------------------------
\* Claims about the agent loop
\* ------------------------------------------------------------------------

\* the tool cycles the running chatInternal() has completed: the tool-result
\* turns of its transcript
ToolCycles == Cardinality({i \in DOMAIN contents : "responses" \in DOMAIN contents[i]})

\* C4: the cycle request -> stream -> tools -> request runs at most Ceiling
\* rounds: once Ceiling tool cycles are complete no further request is issued
\* and the invocation has ended with the iteration-budget error.
C4_IterationCeiling ==
  ToolCycles >= Ceiling => (pc = "failed" /\ Includes(chatError, "iteration budget"))

\* C5: the third of three identical consecutive tool calls is not executed.
C5_ThirdRepeatNotExecuted ==
  \A i \in 1..Len(execLog) :
     i + 2 <= Len(execLog) => ~(execLog[i] = execLog[i + 1] /\ execLog[i + 1] = execLog[i + 2])

\* C6: a turn with one function call followed by a plain-text turn T makes
\* chat() yield exactly three responses: the action pending, the same action
\* resolved (success or error, with its output), and T with no actions.
C6_PendingResolvedFinal ==
  (/\ pc = "done"
   /\ Len(turnsLog) = 2
   /\ turnsLog[1] = Turn(<<ReadA>>, "close")
   /\ turnsLog[2] = Turn(<<Answer>>, "close"))
  => /\ Len(emitted) = 3
     /\ Len(emitted[1].actions) = 1
     /\ emitted[1].actions[1].tool = "read_file"
     /\ emitted[1].actions[1].status = "pending"
     /\ Len(emitted[2].actions) = 1
     /\ emitted[2].actions[1].tool = "read_file"
     /\ emitted[2].actions[1].status \in {"success", "error"}
     /\ "output" \in DOMAIN emitted[2].actions[1]
     /\ emitted[3].text = <<"Done.">>
     /\ emitted[3].actions = << >>

\* C7: when chat() returns normally it has emitted at least one response, and
\* the last one has no actions and carries the accumulated answer text.
C7_LastResponseFinal ==
  pc = "done" =>
     /\ emitted # << >>
     /\ emitted[Len(emitted)].actions = << >>
     /\ (contents # << >> => emitted[Len(emitted)].text = accumulatedText)

\* ------------------------------------------------------------------------
\* Claims about the stream decoder
\* ------------------------------------------------------------------------

\* the characters delivered so far
Delivered == Substring(response, 0, Len(response) - Len(wire))

\* C8: however the response is cut into chunks, the streaming loop has, after
\* every chunk and at the end, emitted the same responses, buffered the same
\* function calls and kept the same partial line as when the characters
\* delivered so far arrive in one chunk.
C8_ChunkBoundaryIndependence ==
  /\ pc # "failed"
  /\ \A whole \in {FeedChunk(NewDecoder, Delivered)} :
        /\ emitted = whole.emitted
        /\ accumulatedFunctions = whole.functions
        /\ accumulatedText = whole.text
        /\ accumulatedThinking = whole.thinking
        /\ isThinking = whole.isThinking
        /\ buffer = whole.buffer

C8_Witness ==
  /\ pc = "decoded"
  /\ scenario.midCut
  /\ scenario.lines = <<OpenEvent, CloseCallEvent, TextEvent>>
  /\ Len(emitted) = 3
  /\ Len(accumulatedFunctions) = 1
  /\ accumulatedThinking = <<"why">>

\* a response without its malformed events; what follows a dropped last
\* event was terminated by a newline
WellFormed(lines) == SelectSeq(lines, LAMBDA l : l \notin MalformedLines)

WithoutMalformed ==
  Encode(WellFormed(scenario.lines),
         scenario.terminated \/ scenario.lines[Len(scenario.lines)] \in MalformedLines)

HasMalformed == \E i \in 1..Len(scenario.lines) : scenario.lines[i] \in MalformedLines

\* C10: a line whose payload is not valid JSON does not end the stream or
\* fail the chat, and the response is decoded as the same response without
\* its malformed lines.
C10_MalformedFrameSkipped ==
  /\ pc # "failed"
  /\ (pc = "decoded" /\ HasMalformed) =>
        \A clean \in {FeedChunk(NewDecoder, WithoutMalformed)} :
           /\ emitted = clean.emitted
           /\ accumulatedFunctions = clean.functions
           /\ accumulatedText = clean.text
           /\ accumulatedThinking = clean.thinking
           /\ isThinking = clean.isThinking

C10_Witness ==
  /\ pc = "decoded"
  /\ scenario.lines = <<OpenEvent, TruncatedEvent, CloseCallEvent>>
  /\ scenario.terminated
  /\ Len(emitted) = 2
  /\ Len(accumulatedFunctions) = 1

CurrentCall == accumulatedFunctions[toolIdx]

\* the step in which the tool loop executes that call
ToolStep == pc = "exec" /\ execLog' = Append(execLog, CurrentCall)

\* the function responses gathered so far in this tool cycle, after a step of
\* the tool loop: in functionResponseParts, or already sent back in contents
ResponsesIn(p, frp, c) ==
  IF p = "pending" THEN frp
  ELSE LET sent == {i \in 1..Len(c) : "responses" \in DOMAIN c[i]}
       IN c[CHOOSE i \in sent : \A j \in sent : j <= i].responses

\* C11: executing a function call never throws: whatever the tool name, with
\* or without arguments, and whether the provider returns or throws, the step
\* records a result for the call, a provider that threw gives a result
\* {status: "error", message}, and the chat goes on to the next call or to the
\* next model request without failing.
C11_ToolExecutionNeverThrows ==
  [][ToolStep =>
       /\ pc' \in {"pending", "stream", "predict"}
       /\ chatError' = chatError
       /\ failures' = failures
       /\ LET results == ResponsesIn(pc', functionResponseParts', contents')
          IN /\ Len(results) = toolIdx
             /\ results[toolIdx].name = CurrentCall.name
             /\ "thrown" \notin DOMAIN results[toolIdx].content
             /\ (/\ providerCalls' # providerCalls
                 /\ providerCalls'[Len(providerCalls')].outcome = "throws")
                => /\ results[toolIdx].content.status = "error"
                   /\ "message" \in DOMAIN results[toolIdx].content]_vars

\* the tool results of the third turn of the transcript, if that turn holds
\* tool results
ThirdTurnResults ==
  IF Len(contents) >= 3 /\ "responses" \in DOMAIN contents[3]
  THEN contents[3].responses
  ELSE << >>

C11_Witness ==
  /\ pc = "done"
  /\ requests = 2
  /\ execLog = <<ReadMissing, ListFiles>>
  /\ providerCalls = <<[name |-> "list_files", args |-> Missing, outcome |-> "throws"]>>
  /\ Len(ThirdTurnResults) = 2
  /\ ThirdTurnResults[1].content.status = "error"
  /\ ThirdTurnResults[2].content.status = "error"

\* main.ts:842-884  the capability group a tool belongs to, by the permission
\* that the settings tab describes for it
CapabilityOf(name) ==
  IF name \in {"list_files", "read_file"} THEN "permVaultRead"
  ELSE IF name = "create_note" THEN "permVaultWrite"
  ELSE IF name = "delete_file" THEN "permVaultDelete"
  ELSE IF name = "fetch_url" THEN "permWeb"
  ELSE "permTerminal"

\* C12: a call never reaches the provider of a tool whose capability group
\* is disabled in the settings.
C12_DisabledCapabilityNotDispatched ==
  \A i \in 1..Len(providerCalls) : pluginSettings[CapabilityOf(providerCalls[i].name)]

\* C13: a function call whose name is not in the dispatch table invokes no
\* provider and gets the result {status: "error", message: "Unknown tool:
\* <name>"}, which is recorded among the function responses of the cycle.
C13_UnknownToolNormalized ==
  [][(ToolStep /\ CurrentCall.name \notin ProviderTools) =>
       /\ providerCalls' = providerCalls
       /\ pc' \in {"pending", "stream", "predict"}
       /\ ResponsesIn(pc', functionResponseParts', contents')[toolIdx] =
            [name |-> CurrentCall.name,
             content |-> [status |-> "error",
                          message |-> <<"Unknown tool: ", CurrentCall.name>>]]]_vars

C13_Witness ==
  /\ pc = "done"
  /\ requests = 2
  /\ execLog = <<ReadA, Bogus>>
  /\ Len(providerCalls) = 1
  /\ Len(ThirdTurnResults) = 2
  /\ ThirdTurnResults[2] =
       [name |-> "no_such_tool",
        content |-> [status |-> "error", message |-> <<"Unknown tool: ", "no_such_tool">>]]

\* ------------------------------------------------------------------------
\* Claims about the fallback
\* ------------------------------------------------------------------------

\* the class of a request failure, by the status of the response and by its
\* diagnostic
NotFoundClass(msg) == msg[2] = "404" \/ Includes(SubSeq(msg, 3, Len(msg)), "not found")
BadRequestClass(msg) == msg[2] = "400"

\* the step in which a request of the invocation fails for the first time
FirstFailure == failures = << >> /\ Len(failures') = 1

RetryStarted == pc' \in {"stream", "predict"} /\ requests' = requests + 1

\* C14: whatever the configured region and model, a first failure of the
\* 404 / not-found class is followed by one retry with the default model in
\* the default region.
C14_NotFoundFallsBack ==
  [][FirstFailure => \A msg \in {failures'[1]} :
       (NotFoundClass(msg))
       => /\ RetryStarted
          /\ modelId' = DefaultModel
          /\ runLocation' = DefaultLocation]_vars

\* C15: a first failure of the 400 class, with a model that is not the
\* default one, is followed by one retry with the default model in the
\* region of the failed request.
C15_BadRequestKeepsRegion ==
  [][FirstFailure => \A msg \in {failures'[1]} :
       (BadRequestClass(msg) /\ modelId # DefaultModel)
       => /\ RetryStarted
          /\ modelId' = DefaultModel
          /\ runLocation' = runLocation]_vars

\* C16: a failure that is neither of the 404 / not-found class nor of the 400
\* class is not retried: the error reaches the caller after one request.
C16_OtherFailuresPropagate ==
  [][FirstFailure => \A msg \in {failures'[1]} :
       (~NotFoundClass(msg) /\ ~BadRequestClass(msg))
       => /\ pc' = "failed"
          /\ chatError' = msg
          /\ requests' = requests]_vars

\* C17: one chat invocation starts at most one fallback retry: a second
\* failure, of any class, ends the invocation with that error.
C17_AtMostOneFallback ==
  /\ Len(failures) <= 2
  /\ attempt <= 2
  /\ Len(failures) = 2 => (pc = "failed" /\ chatError = failures[2])
  /\ (Len(failures) = 1 /\ pc # "failed") => attempt = 2

C17_Witness ==
  /\ pc = "failed"
  /\ attempt = 2
  /\ failures = <<ErrorMessage("404"), ErrorMessage("400")>>
  /\ requests = 2
  /\ modelId = DefaultModel

\* ------------------------------------------------------------------------
\* Claims about cancellation and the caller's history
\* ------------------------------------------------------------------------

\* C18: once the cancellation signal is set, no further model request is
\* issued and no further tool execution is started.
C18_CancellationChecked ==
  [][aborted => (requests' = requests /\ execLog' = execLog)]_vars

\* C19: chat() never changes the history the caller passed: no step of the
\* invocation, whether it completes, fails, falls back or is cancelled,
\* changes its length or its entries.
C19_HistoryUnchanged == [][history' = history]_vars

C19_Witness ==
  /\ pc = "cancelled"
  /\ Len(history) = 2
  /\ attempt = 2
  /\ ToolCycles = 1
  /\ Len(contents) = Len(history) + 4

\* ------------------------------------------------------------------------
\* Claims about a refresh that fails
\* ------------------------------------------------------------------------

\* refresh i ends with an error in this step
RefreshFails(i) ==
  /\ refreshes'[i].pc = "done"
  /\ refreshes'[i].err # "none"
  /\ (i > Len(refreshes) \/ refreshes[i].pc # "done")

\* the latest refresh has failed and no valid token is cached
AfterFailedRefresh ==
  /\ refreshes # << >>
  /\ refreshes[Len(refreshes)].pc = "done"
  /\ refreshes[Len(refreshes)].err # "none"
  /\ ~(accessToken # NoToken /\ now < tokenExpiry)

\* C20: a refresh that fails (credential not configured, not JSON, without
\* client_email or private_key, not signable, or a token exchange answered
\* with a status other than 200) rejects with its error for every caller
\* awaiting it, has sent at most one token-exchange request, neither stores
\* nor leaves a valid token, and leaves no refresh in flight: the next
\* getAccessToken() call starts a new refresh.
C20_FailedRefresh ==
  [][/\ \A i \in 1..Len(refreshes') :
          RefreshFails(i) =>
             /\ refreshes'[i].sent <= 1
             /\ \A c \in Callers :
                   (callers'[c].p = i \/ (callers[c].st = "waiting" /\ callers[c].p = i))
                   => /\ callers'[c].st = "threw"
                      /\ callers'[c].err = refreshes'[i].err
                      /\ callers'[c].tok = NoToken
             /\ accessToken' = accessToken
             /\ tokenExpiry' = tokenExpiry
             /\ ~(accessToken' # NoToken /\ now' < tokenExpiry')
             /\ isRefreshingToken' = FALSE
     /\ \A c \in Callers :
          (AfterFailedRefresh /\ callers[c].st = "idle" /\ callers'[c].st # "idle")
          => /\ Len(refreshes') = Len(refreshes) + 1
             /\ callers'[c].p = Len(refreshes')]_vars

C20_Witness ==
  \E c1, c2, c3 \in Callers :
     /\ c1 # c2
     /\ callers[c1].st = "threw" /\ callers[c1].p = 1
     /\ callers[c2].st = "threw" /\ callers[c2].p = 1
     /\ callers[c1].err = "Failed to refresh token"
     /\ refreshes[1].sent = 1
     /\ Len(refreshes) = 2
     /\ callers[c3].st = "waiting" /\ callers[c3].p = 2
     /\ accessToken = NoToken

\* ------------------------------------------------------------------------
\* Claims about reconfiguration
\* ------------------------------------------------------------------------

\* C21: a getAccessToken() call that starts after updateSettings() replaced
\* the credential never returns a token obtained with the previous
\* credential: every token a call returns, from the cache or from the refresh
\* it joined or started, was made with the credential that was configured
\* when the call started.
C21_ReconfigurationInvalidates ==
  \A c \in Callers :
     callers[c].st = "returned" => ~callers[c].prev

\* ------------------------------------------------------------------------
\* Claims about the turns of the model
\* ------------------------------------------------------------------------

\* a model turn that carries no candidates or no content: the response
\* closes without a part
EmptyTurn == Turn(<< >>, "close")

\* C22: a model turn without candidates or content ends the invocation with
\* the empty-response error: it is the last request of the invocation (it is
\* not retried), and once its response has closed the chat has failed with
\* that error and has not completed normally.
C22_EmptyResponseIsError ==
  \A i \in 1..Len(turnsLog) :
     turnsLog[i] = EmptyTurn =>
        /\ i = Len(turnsLog)
        /\ pc \in {"stream", "failed"}
        /\ pc = "failed" => Includes(chatError, "empty response")

\* the step in which the streaming loop decodes the next event of the response
EventStep == pc = "stream" /\ parts # << >> /\ parts' = Tail(parts)

\* C23: during streaming a progress update is emitted after every decoded
\* event, a text delta, a reasoning delta or a function call, in delivery
\* order: the step that decodes an event appends one response to those
\* emitted before.
C23_UpdateAfterEveryEvent ==
  [][EventStep =>
       /\ Len(emitted') = Len(emitted) + 1
       /\ SubSeq(emitted', 1, Len(emitted)) = emitted]_vars

\* the function calls of a turn whose response closed normally
CallsOf(turn) ==
  IF turn.end = "close" THEN SelectSeq(turn.parts, LAMBDA p : p.k = "call") ELSE << >>

\* the function calls of the turns of a log, in order
RECURSIVE ClosedCalls(_)
ClosedCalls(log) ==
  IF log = << >> THEN << >> ELSE CallsOf(Head(log)) \o ClosedCalls(Tail(log))

IsPrefix(a, b) == Len(a) <= Len(b) /\ SubSeq(b, 1, Len(a)) = a

\* C24: no event ends a turn by itself. A function call decoded while the
\* response is open is only buffered; a provider is invoked only by the tool
\* loop, after the response of the turn has closed normally; while a response
\* is open the calls executed are those of the earlier turns; and a turn whose
\* response ends with a transport error executes none of its buffered calls.
C24_TurnEndsAtClose ==
  [][/\ (EventStep /\ Head(parts).k = "call") =>
           /\ accumulatedFunctions' = Append(accumulatedFunctions, Head(parts))
           /\ pc' = "stream"
           /\ execLog' = execLog
           /\ providerCalls' = providerCalls
     /\ (providerCalls' # providerCalls \/ execLog' # execLog) =>
           /\ pc = "exec"
           /\ parts = << >>
           /\ LastTurn.end = "close"
           /\ execLog' = Append(execLog, CurrentCall)
     /\ IsPrefix(execLog', ClosedCalls(turnsLog'))
     /\ pc' = "stream" =>
           execLog' = ClosedCalls(SubSeq(turnsLog', 1, Len(turnsLog') - 1))]_vars

C24_Witness ==
  /\ pc = "failed"
  /\ turnsLog = <<Turn(<<ReadA>>, "503")>>
  /\ accumulatedFunctions = <<ReadA>>
  /\ execLog = << >>
  /\ providerCalls = << >>

\* what the dispatch may answer a call with
ResultsOf(funcCall) ==
  {ExecuteTool(funcCall.name, funcCall.args, outcome) : outcome \in {"ok", "throws"}}

\* C25: the tool calls of one turn are executed one at a time in the order
\* the model issued them. When call k is executed the results of the calls
\* 1..k-1 of the turn, and no others, have been recorded; the step invokes
\* at most the provider of call k; and the tool-result turn sent back to the
\* model lists one result per call of the turn, in the order of the calls.
C25_ToolsInOrder ==
  [][ToolStep =>
       /\ SubSeq(accumulatedFunctions, 1, toolIdx - 1) =
             SubSeq(execLog, Len(execLog) - toolIdx + 2, Len(execLog))
       /\ Len(functionResponseParts) = toolIdx - 1
       /\ \A k \in 1..(toolIdx - 1) :
             /\ functionResponseParts[k].name = accumulatedFunctions[k].name
             /\ functionResponseParts[k].content \in ResultsOf(accumulatedFunctions[k])
       /\ \/ providerCalls' = providerCalls
          \/ /\ Len(providerCalls') = Len(providerCalls) + 1
             /\ providerCalls'[Len(providerCalls')].name = CurrentCall.name
             /\ providerCalls'[Len(providerCalls')].args = CurrentCall.args
       /\ pc' # "pending" =>
             /\ accumulatedFunctions = CallsOf(LastTurn)
             /\ \A sent \in {contents'[Len(contents') - 1]} :
                   /\ sent.role = "user"
                   /\ Len(sent.responses) = Len(accumulatedFunctions)
                   /\ \A k \in 1..Len(accumulatedFunctions) :
                         /\ sent.responses[k].name = accumulatedFunctions[k].name
                         /\ sent.responses[k].content \in ResultsOf(accumulatedFunctions[k])]_vars

C25_Witness ==
  /\ pc = "done"
  /\ requests = 2
  /\ execLog = <<RunCmd, FetchUrl>>
  /\ Len(providerCalls) = 2
  /\ providerCalls[1].name = "run_terminal_command"
  /\ providerCalls[2].name = "fetch_url"
  /\ Len(ThirdTurnResults) = 2
  /\ ThirdTurnResults[1].name = "run_terminal_command"
  /\ ThirdTurnResults[2].name = "fetch_url"

\* the action a pending response lists for a call
PendingFor(funcCall) == [tool |-> funcCall.name, input |-> funcCall.args, status |-> "pending"]

\* the responses emitted so far that list a pending action
PendingCount ==
  Cardinality({i \in 1..Len(emitted) :
                  emitted[i].actions # << >> /\ emitted[i].actions[1].status = "pending"})

\* C26: for every function call a response listing the call as pending is
\* emitted before its provider is invoked: the step that emits it invokes
\* nothing, the step that executes a call finds the pending response of that
\* call as the last one emitted, one for each call executed so far; and the
\* call is executed only when the consumer asked for the next response: a
\* consumer that left at the pending response leaves the call unexecuted.
C26_PendingBeforeProvider ==
  [][/\ ToolStep =>
           /\ emitted # << >>
           /\ emitted[Len(emitted)].actions = <<PendingFor(CurrentCall)>>
           /\ PendingCount = Len(execLog) + 1
     /\ (pc = "pending" /\ pc' # "pending") =>
           /\ Len(emitted') = Len(emitted) + 1
           /\ emitted'[Len(emitted')].actions = <<PendingFor(CurrentCall)>>
           /\ execLog' = execLog
           /\ providerCalls' = providerCalls
           /\ pc' = IF aborted THEN "cancelled" ELSE "exec"
     /\ pc = "cancelled" => (execLog' = execLog /\ providerCalls' = providerCalls)]_vars

C26_Witness ==
  /\ pc = "done"
  /\ Len(emitted) = 2
  /\ emitted[1].actions = <<PendingFor(ReadA)>>
  /\ providerCalls = <<[name |-> "read_file", args |-> "a.md", outcome |-> "ok"]>>
  /\ execLog = <<ReadA>>

\* ------------------------------------------------------------------------
\* Claims about the transcript and the responses
\* ------------------------------------------------------------------------

\* the step that completes a tool cycle and issues the next request
NextRoundStep == ToolStep /\ pc' # "pending"

\* C27: the transcript sent to the model is append-only and a completed tool
\* cycle extends it by exactly two turns. No step that is not a fallback
\* shortens or rewrites it; the model turn is appended when the response
\* closes; and the request of the next round carries that transcript followed
\* by one tool-result turn and nothing else: the user message appears once.
C27_TranscriptTwoTurnsPerCycle ==
  [][/\ (failures' = failures /\ contents # << >>) => IsPrefix(contents, contents')
     /\ (pc = "stream" /\ pc' = "pending") =>
           /\ Len(contents') = Len(contents) + 1
           /\ contents'[Len(contents')].role = "model"
     /\ NextRoundStep =>
           /\ Len(contents') = Len(contents) + 1
           /\ "responses" \in DOMAIN contents'[Len(contents')]
           /\ Cardinality({i \in 1..Len(contents') : contents'[i] = UserTurn}) = 1]_vars

\* the thinkingText of a response; the response of a non-streaming model has none
ThinkingOf(resp) == IF "thinkingText" \in DOMAIN resp THEN resp.thinkingText ELSE << >>

\* C28: within one chat invocation text and thinkingText are cumulative: each
\* emitted response has the text and the thinkingText of the response emitted
\* before it as prefixes of its own.
C28_CumulativeText ==
  \A i \in 1..(Len(emitted) - 1) :
     /\ IsPrefix(emitted[i].text, emitted[i + 1].text)
     /\ IsPrefix(ThinkingOf(emitted[i]), ThinkingOf(emitted[i + 1]))

\* ------------------------------------------------------------------------
\* Claims about the delimiter state
\* ------------------------------------------------------------------------

\* the text a frame carries, by the kind of its event
EventTexts(line) ==
  IF line = TextEvent THEN << <<"a">> >>
  ELSE IF line = OpenEvent THEN << OpenMarker \o <<"why">> >>
  ELSE IF line = CloseCallEvent THEN << CloseMarker \o <<"so">> >>
  ELSE << >>

\* the texts of the frames of a response, in order
RECURSIVE FrameTexts(_)
FrameTexts(lines) ==
  IF lines = << >> THEN << >> ELSE EventTexts(Head(lines)) \o FrameTexts(Tail(lines))

\* the frames that were decoded: a last data line that no newline follows
\* is not
DecodedLines ==
  IF scenario.terminated \/ Includes(scenario.lines[Len(scenario.lines)], "NL")
  THEN scenario.lines
  ELSE SubSeq(scenario.lines, 1, Len(scenario.lines) - 1)

\* character by character: an opening delimiter outside a block and a closing
\* one inside a block switch the state, every other character goes to the
\* answer outside a block and to the reasoning inside one
RECURSIVE Classify(_, _)
Classify(str, st) ==
  IF str = << >> THEN st
  ELSE IF ~st.isThinking /\ IsPrefix(OpenMarker, str)
  THEN Classify(SubstringFrom(str, Len(OpenMarker)), [st EXCEPT !.isThinking = TRUE])
  ELSE IF st.isThinking /\ IsPrefix(CloseMarker, str)
  THEN Classify(SubstringFrom(str, Len(CloseMarker)), [st EXCEPT !.isThinking = FALSE])
  ELSE IF st.isThinking
  THEN Classify(Tail(str), [st EXCEPT !.thinking = Append(@, Head(str))])
  ELSE Classify(Tail(str), [st EXCEPT !.text = Append(@, Head(str))])

\* the responses a sequence of frame texts is to give, the state carried over
RECURSIVE Carried(_, _, _)
Carried(texts, st, out) ==
  IF texts = << >> THEN out
  ELSE LET next == Classify(Head(texts), st)
       IN Carried(Tail(texts), next,
                  Append(out, [text |-> next.text, isThinking |-> next.isThinking,
                               thinkingText |-> next.thinking, actions |-> << >>]))

\* C29: the delimiter state is carried across the frames of one stream. After
\* a frame that opens a thinking block the text of later frames goes to
\* thinkingText until a frame with the closing delimiter, then to the answer
\* again; every character that is not part of a delimiter is appended to
\* exactly one of the two; and each response carries the state after its part.
C29_DelimiterStateCarried ==
  pc = "decoded" =>
     \A expected \in {Carried(FrameTexts(DecodedLines),
                              [text |-> << >>, thinking |-> << >>, isThinking |-> FALSE],
                              << >>)} :
        /\ emitted = expected
        /\ expected # << >> =>
              /\ accumulatedText = expected[Len(expected)].text
              /\ accumulatedThinking = expected[Len(expected)].thinkingText
              /\ isThinking = expected[Len(expected)].isThinking

C29_Witness ==
  /\ pc = "decoded"
  /\ scenario.lines = <<OpenEvent, TextEvent, CloseCallEvent>>
  /\ scenario.terminated
  /\ Len(emitted) = 3
  /\ emitted[1].isThinking /\ emitted[2].isThinking /\ ~emitted[3].isThinking
  /\ accumulatedThinking = <<"why", "a">>
  /\ accumulatedText = <<"so">>

\* ------------------------------------------------------------------------
\* Claims about the token of a request
\* ------------------------------------------------------------------------

\* the step that issues a request to the model
RequestStep == requests' = requests + 1

\* C30: every request to the model, the first one, those of later tool
\* rounds and the fallback retry, carries a token that the broker holds as
\* valid when the request is issued: the cached token, before its cached
\* expiry.
C30_TokenValidAtRequest ==
  [][RequestStep =>
       /\ callers["c1"].tok # NoToken
       /\ callers["c1"].tok = accessToken
       /\ now < tokenExpiry]_vars

\* ------------------------------------------------------------------------
\* Claims about destructive actions and the fallback retry
\* ------------------------------------------------------------------------

\* C31: while Confirm Destructive Actions is enabled a run_terminal_command
\* call never executes a shell command: no provider is invoked, the call gets
\* the result {status: "error", message} that says terminal commands are
\* blocked, and the chat goes on to the next call or the next request.
C31_TerminalBlockedWhenConfirming ==
  [][(/\ ToolStep
      /\ CurrentCall.name = "run_terminal_command"
      /\ pluginSettings.confirmDestructive) =>
       /\ providerCalls' = providerCalls
       /\ pc' \in {"pending", "stream", "predict"}
       /\ failures' = failures
       /\ chatError' = chatError
       /\ ResponsesIn(pc', functionResponseParts', contents')[toolIdx] =
            [name |-> "run_terminal_command",
             content |-> [status |-> "error",
                          message |-> "Terminal commands are blocked"]]]_vars

C31_Witness ==
  /\ pc = "done"
  /\ pluginSettings.confirmDestructive
  /\ execLog = <<RunCmd, FetchUrl>>
  /\ Len(providerCalls) = 1
  /\ providerCalls[1].name = "fetch_url"
  /\ Len(ThirdTurnResults) = 2
  /\ ThirdTurnResults[1].content.status = "error"
  /\ ThirdTurnResults[2].content.status = "success"

\* C32: a fallback retry restarts the loop from the history of the caller
\* plus the user message: the turns that tool cycles appended before the
\* failure are not in the transcript of the retry, which starts with no
\* buffered call and no result, so that a tool that ran in the failed attempt
\* can be requested and executed again.
C32_RetryRestartsFromHistory ==
  [][(failures' # failures /\ RetryStarted) =>
       /\ contents' = Append(history, UserTurn)
       /\ ToolCycles' = 0
       /\ accumulatedFunctions' = << >>
       /\ functionResponseParts' = << >>
       /\ executedActions' = << >>
       /\ execLog' = execLog]_vars

C32_Witness ==
  /\ pc = "done"
  /\ Len(failures) = 1
  /\ Len(turnsLog) = 4
  /\ turnsLog[1] = Turn(<<Answer, CreateB>>, "close")
  /\ execLog = <<CreateB, CreateB>>
  /\ Len(providerCalls) = 2
  /\ ToolCycles = 1
  /\ Len(contents) = Len(history) + 4

\* C33: chat() leaves the configured model identifier unchanged: no step of
\* an invocation, a fallback retry included, changes the model that the next
\* invocation will use.
C33_ModelIdUnchanged == [][modelId' = modelId]_vars

\* C34: the model turn appended after a turn with function calls records
\* every call of that turn: each tool-result turn of the transcript follows a
\* model turn that lists as many function calls as it lists responses.
C34_ModelTurnRecordsAllCalls ==
  \A i \in 1..Len(contents) :
     "responses" \in DOMAIN contents[i] =>
        /\ i > 1
        /\ contents[i - 1].role = "model"
        /\ Len(contents[i - 1].calls) = Len(contents[i].responses)

\* ------------------------------------------------------------------------
\* Claims about the partial line
\* ------------------------------------------------------------------------

\* the characters of a string up to its last newline
UpToLastNewline(str) ==
  LET ends == {i \in 1..Len(str) : str[i] = "NL"}
  IN IF ends = {} THEN << >>
     ELSE SubSeq(str, 1, CHOOSE i \in ends : \A j \in ends : j <= i)

\* C35: a frame is decoded only once the newline that ends its line has
\* arrived. At every moment, and after the stream has closed, the responses
\* emitted and the calls buffered are those of the characters delivered up
\* to the last newline; what follows it is held in the buffer, and when the
\* stream closes it is dropped without being parsed and without an error.
C35_PartialLineDropped ==
  /\ pc # "failed"
  /\ chatError = << >>
  /\ buffer = SubstringFrom(Delivered, Len(UpToLastNewline(Delivered)))
  /\ \A complete \in {FeedChunk(NewDecoder, UpToLastNewline(Delivered))} :
        /\ complete.buffer = << >>
        /\ emitted = complete.emitted
        /\ accumulatedFunctions = complete.functions
        /\ accumulatedText = complete.text
        /\ accumulatedThinking = complete.thinking

C35_Witness ==
  /\ pc = "decoded"
  /\ ~scenario.terminated
  /\ scenario.lines = <<TextEvent, CloseCallEvent>>
  /\ buffer = CloseCallEvent
  /\ Len(emitted) = 1
  /\ accumulatedFunctions = << >>

\* ------------------------------------------------------------------------
\* Claims about the chat view
\* ------------------------------------------------------------------------

\* C36: whenever a generation that was not stopped is still running,
\* isGenerating is true and abortController is the controller of that
\* generation, so that stopGeneration() aborts it.
C36_RunningGenerationStoppable ==
  \A g \in 1..Len(generations) :
     (generations[g].pos # "finished" /\ ~generations[g].aborted) =>
        /\ isGenerating
        /\ abortController = g

\* ------------------------------------------------------------------------
\* Claims about AsyncQueue
\* ------------------------------------------------------------------------
NoFail == \A i \in 1..Len(pushLog) : pushLog[i].op # "fail"

\* the producer's calls before its first close()
BeforeClose ==
  IF \E i \in 1..Len(pushLog) : pushLog[i].op = "close"
  THEN SubSeq(pushLog, 1,
              (CHOOSE i \in 1..Len(pushLog) :
                  /\ pushLog[i].op = "close"
                  /\ \A j \in 1..(i - 1) : pushLog[j].op # "close") - 1)
  ELSE pushLog

IsPushCall(call) == call.op = "push"
IsValue(promise) == promise.res = "value"
ValuesOf(s) == [i \in 1..Len(s) |-> s[i].value]

Accepted == ValuesOf(SelectSeq(BeforeClose, IsPushCall))
DeliveredBy(n) == ValuesOf(SelectSeq(SubSeq(received, 1, n), IsValue))

\* C37: while the producer never fails, the values next() has returned are
\* the values pushed before close(), in push order and each once, and next()
\* answers done only when all of them have been returned; so a push() after
\* close() is never delivered and what is queued at close() precedes done.
C37_FifoExactlyOnce ==
  NoFail =>
     /\ IsPrefix(DeliveredBy(Len(received)), Accepted)
     /\ \A i \in 1..Len(received) :
           received[i].res = "done" => DeliveredBy(i - 1) = Accepted

\* two values were pushed, one still queued at close() is delivered after
\* it, then done; a push() after close() was ignored
C37_Witness ==
  /\ NoFail
  /\ Len(Accepted) = 2
  /\ Len(BeforeClose) < Len(pushLog)
  /\ pushLog[Len(pushLog)].op = "push"
  /\ \E i \in 1..Len(received) :
        /\ received[i].res = "value"
        /\ received[i].at > Len(BeforeClose)
  /\ received[Len(received)].res = "done"

Ended(n) == \E j \in 1..n : pushLog[j].op \in {"close", "fail"}

\* C38: no wake-up is lost. A promise of next() is pending only while the
\* producer has made no call since next() was called, and never once the
\* producer has called close() or fail(): the first push(), close() or
\* fail() after a waiting next() settles it.
C38_NoLostWakeup ==
  \A i \in 1..Len(received) :
     received[i].res = "pending" =>
        /\ received[i].at = Len(pushLog)
        /\ ~Ended(Len(pushLog))

\* one next() waited and was resolved by a later push(), another waited and
\* was resolved by close()
C38_Witness ==
  /\ \E i \in 1..Len(received) :
        /\ received[i].res = "value"
        /\ received[i].value > received[i].at
  /\ \E i \in 1..Len(received) :
        /\ received[i].res = "done"
        /\ ~Ended(received[i].at)

IsFailCall(call) == call.op = "fail"
FailsBefore(n) == SelectSeq(SubSeq(pushLog, 1, n), IsFailCall)

\* C39: a next() called after fail(err) rejects with err, the error of the
\* last fail() before the call, whatever is still queued and whether or not
\* close() was called since: it returns neither a value nor done.
C39_FailureTakesPrecedence ==
  \A i \in 1..Len(received) :
     FailsBefore(received[i].at) # << >> =>
        /\ received[i].res = "error"
        /\ received[i].err =
              FailsBefore(received[i].at)[Len(FailsBefore(received[i].at))].err

\* a value was pushed and not consumed, the producer failed and then
\* closed, and the next() after that was rejected
C39_Witness ==
  /\ Len(pushLog) = 3
  /\ pushLog[1].op = "push"
  /\ pushLog[2].op = "fail"
  /\ pushLog[3].op = "close"
  /\ queue # << >>
  /\ \E i \in 1..Len(received) :
        /\ received[i].at = 3
        /\ received[i].res = "error"

====
